---- MODULE Spec2Model ----
(***************************************************************************)
(* Connectivity analysis pipeline of AzureAIAllowList.                     *)
(*                                                                         *)
(*   Spec          one run of ConnectivityAnalyzer.analyze()               *)
(*                 (connectivity_analyzer.py, progress_tracker.py)         *)
(*   SpecDiscovery the discovery paths of ResourceDiscovery.analyze(),     *)
(*                 up to its analysis loop (resource_discovery.py)         *)
(*   SpecAnalysis  the analysis loop and the return of                     *)
(*                 ResourceDiscovery.analyze() (resource_discovery.py)     *)
(*   SpecScore     ConnectedResource.get_security_score as a function of   *)
(*                 its four inputs (resource_discovery.py)                 *)
(*   SpecNetwork   one run of NetworkAnalyzer.analyze()                    *)
(*                 (network_analyzer.py)                                   *)
(*   SpecNsg       VNetAnalyzer._analyze_nsg_rules as a function of the    *)
(*                 rule list (vnet_analyzer.py)                            *)
(*   SpecVNet      one run of VNetAnalyzer.analyze_workspace_vnet          *)
(*                 (vnet_analyzer.py)                                      *)
(*   SpecOrchestratedVNet  analyze_workspace_vnet as step 3 of             *)
(*                 ConnectivityAnalyzer.analyze() calls it                 *)
(*   SpecCompare   ComparisonAnalyzer._generate_comparison on two analysis *)
(*                 dicts, in both orders (comparison_analyzer.py)          *)
(*   SpecCompareWorkspaces  one run of ComparisonAnalyzer.compare_workspaces *)
(*   SpecRecommendation     ComparisonAnalyzer._get_recommendation as a   *)
(*                 function of the list of differences                     *)
(*   SpecCli       AzureCliHelper.run_az_command (azure_cli_helper.py)     *)
(*   SpecReports   the report files of two runs of analyze() for one       *)
(*                 workspace (connectivity_analyzer.py, report_generator.py) *)
(***************************************************************************)
EXTENDS Integers, Sequences, FiniteSets, TLC

VARIABLES
    hub_type,             \* BaseAnalyzer.hub_type (constructor argument)
    pc,                   \* position of the run inside analyze()
    current_step,         \* ProgressTracker.current_step
    step_details,         \* ProgressTracker.step_details
    results,              \* ConnectivityAnalyzer.results (stage key -> stage output)
    calls,                \* number of invocations of each stage in this run
    stage_result,         \* analyze()'s locals prereq_result, workspace_result,
                          \* network_result, vnet_info, resource_result, and the
                          \* outcome of the report block
    ret,                  \* the AnalysisResult analyze() returned
    artifacts,            \* report files written by MarkdownReportGenerator.save
    persisted,            \* the analysis_results those files were rendered from
    connected_resources,  \* ResourceDiscovery.connected_resources
    dpc,                  \* position of the run inside ResourceDiscovery.analyze()
    idx,                  \* index of the next resource of the analysis loop
    fetched,              \* outcome of the detail fetch of each analysed resource
    subscription_id,      \* BaseAnalyzer.subscription_id of the discovery run
    requests,             \* the _add_resource calls made so far, in call order
    dret,                 \* the AnalysisResult ResourceDiscovery.analyze() returned
    score_in,             \* a ConnectedResource handed to get_security_score
    score_out,            \* the value get_security_score returned for it
    net_workspace_info,   \* the workspace descriptor NetworkAnalyzer.analyze() fetched
    network_config,       \* NetworkAnalyzer.network_config
    npc,                  \* position of the run inside NetworkAnalyzer.analyze()
    nqueries,             \* what the queries of the network stage did, in call order
    nret,                 \* the AnalysisResult NetworkAnalyzer.analyze() returned
    nsg_rules,            \* the securityRules list handed to _analyze_nsg_rules
    rules_summary,        \* what _analyze_nsg_rules returned for it
    vnet_workspace_info,  \* the workspace_info handed to analyze_workspace_vnet
    vnet_world,           \* the subnets' configuration in Azure during the run
    vpc,                  \* position of the run inside analyze_workspace_vnet
    subnet_ids,           \* analyze_workspace_vnet's local subnet_ids
    vnet_out,             \* analyze_workspace_vnet's local vnet_info, its return value
    vfetched,             \* the az queries the run made so far, and how they ended
    vasked,               \* the NSG and route-table queries of the run, in call order
    cmp_ws,               \* workspace1_info and workspace2_info of a comparison
    cmp_analysis,         \* analysis1 and analysis2 of a comparison
    cmp_pc,               \* position of the run inside compare_workspaces
    cmp_fwd,              \* outcome of comparing (workspace1, workspace2)
    cmp_bwd,              \* outcome of comparing (workspace2, workspace1)
    rec_differences,      \* a list of differences handed to _get_recommendation
    recommendation,       \* what _get_recommendation returned for it
    cli_cmd,              \* the cmd list handed to run_az_command
    cli_subscription,     \* its subscription_id argument
    cli_run,              \* what subprocess.run does for the command
    cli_ret,              \* how run_az_command ended
    rep_now,              \* the local wall clock, in ticks
    rep_runs,             \* two runs of analyze() for one workspace
    rep_files             \* the report directory: path -> run that wrote it last

orchVars  == <<pc, current_step, step_details, results, calls, stage_result, ret, artifacts,
               persisted>>
discVars  == <<connected_resources, dpc, idx, fetched, subscription_id, requests, dret>>
scoreVars == <<score_in, score_out>>
netVars   == <<net_workspace_info, network_config, npc, nqueries, nret>>
nsgVars   == <<nsg_rules, rules_summary>>
baseVars  == <<hub_type, orchVars, discVars, scoreVars, netVars>>
vnetVars  == <<vnet_workspace_info, vnet_world, vpc, subnet_ids, vnet_out, vfetched, vasked>>
cmpVars   == <<cmp_ws, cmp_analysis, cmp_pc, cmp_fwd, cmp_bwd>>
recVars   == <<rec_differences, recommendation>>
cliVars   == <<cli_cmd, cli_subscription, cli_run, cli_ret>>
repVars   == <<rep_now, rep_runs, rep_files>>
moreVars  == <<nsgVars, vnetVars, cmpVars, recVars, cliVars, repVars>>
extVars   == <<netVars, moreVars>>
vars      == <<hub_type, orchVars, discVars, scoreVars, extVars>>

None == "None"

\* dict.get(key, default)
Get(d, k, default) == IF k \in DOMAIN d THEN d[k] ELSE default

\* hub-type strings: the CLI option and the workspace selector pass 'ai-foundry'
\* or 'azure-ml'; resource_discovery.py compares with 'azure-ai-foundry'.
HubTypes == {"azure-ml", "ai-foundry", "azure-ai-foundry"}

(***************************************************************************)
(* ProgressTracker                                                         *)
(***************************************************************************)
TotalSteps == 6

steps == << "Validating prerequisites",
            "Connecting to workspace/hub",
            "Analyzing network configuration",
            "Discovering connected resources",
            "Analyzing security settings",
            "Generating report" >>

\* start_step: bump current_step and append an in_progress record.
start_step_offbyone(cur, details, step_name) ==
    [ current_step |-> cur + 1,
      step_details |-> Append(details, [ step   |-> cur,
                                         name   |-> step_name,
                                         status |-> "in_progress",
                                         message |-> "" ]) ]
start_step(cur, details, step_name) ==
    [ current_step |-> cur + 1,
      step_details |-> Append(details, [ step   |-> cur + 1,
                                         name   |-> step_name,
                                         status |-> "in_progress",
                                         message |-> "" ]) ]

\* complete_step: set the status and message of the last record, if any.
complete_step_ignoring_success(details, success, message) ==
    IF details = <<>> THEN details
    ELSE [ details EXCEPT ![Len(details)] =
             [ @ EXCEPT !.status = "success", !.message = message ] ]
complete_step(details, success, message) ==
    IF details = <<>> THEN details
    ELSE [ details EXCEPT ![Len(details)] =
             [ @ EXCEPT !.status  = IF success THEN "success" ELSE "failed",
                        !.message = message ] ]

\* get_summary: counts over the step records (total_duration left out).
get_summary_counting_unfinished(details) ==
    [ total_steps      |-> TotalSteps,
      completed_steps  |-> Len(details),
      successful_steps |-> Cardinality({ i \in 1..Len(details) : details[i].status = "success" }),
      failed_steps     |-> Cardinality({ i \in 1..Len(details) : details[i].status # "success" }),
      step_details     |-> details ]
get_summary(details) ==
    [ total_steps      |-> TotalSteps,
      completed_steps  |-> Len(details),
      successful_steps |-> Cardinality({ i \in 1..Len(details) : details[i].status = "success" }),
      failed_steps     |-> Cardinality({ i \in 1..Len(details) : details[i].status = "failed" }),
      step_details     |-> details ]

(***************************************************************************)
(* AnalysisResult envelopes                                                *)
(***************************************************************************)
AnalysisResult(success, message, data, error) ==
    [ success |-> success, message |-> message, data |-> data, error |-> error ]

\* ret: nothing returned yet, a returned envelope, or an exception that left analyze()
NotReturned == [ returned |-> FALSE, raised |-> None, result |-> AnalysisResult(FALSE, "", None, None) ]
Returned(r) == [ returned |-> TRUE, raised |-> None, result |-> r ]
Escaped(e)  == [ returned |-> FALSE, raised |-> e, result |-> AnalysisResult(FALSE, "", None, None) ]

\* Exceptions that validate_azure_cli does not catch (it catches TimeoutExpired,
\* CalledProcessError and FileNotFoundError only).
UncaughtErrors == {"PermissionError", "OSError"}

\* _validate_prerequisites, given what validate_azure_cli() returned.
_validate_prerequisites(cli_ok) ==
    IF ~cli_ok
    THEN AnalysisResult(FALSE, "Azure CLI not found or ML extension not installed",
                        None, "Please install Azure CLI and run 'az extension add -n ml'")
    ELSE AnalysisResult(TRUE, "Prerequisites validated", None, None)

\* What WorkspaceAnalyzerFactory.create_analyzer(...).analyze() can do:
\* return a WorkspaceConfig or raise.
NetworkModes == {"managed", "customer_managed"}
WorkspaceOutcomes ==
    [ kind : {"config"}, network_mode : NetworkModes ]
    \cup [ kind : {"raise"}, error : {"RuntimeError: Azure CLI command failed"} ]

\* _connect_to_workspace: every exception becomes a failure envelope.
_connect_to_workspace(w, hub) ==
    IF w.kind = "config"
    THEN AnalysisResult(TRUE, "Successfully connected to workspace",
                        [ name           |-> "ws",
                          location       |-> "eastus",
                          network_mode   |-> w.network_mode,
                          isolation_mode |-> IF w.network_mode = "managed"
                                             THEN "allow_internet_outbound" ELSE None,
                          hub_type       |-> hub ],
                        None)
    ELSE AnalysisResult(FALSE, "Failed to connect to workspace", None, w.error)

\* What NetworkAnalyzer.analyze() returns: it catches every exception, so it
\* returns success with _format_network_data() or failure with data None.
NetworkTypes == {"managed", "customer", "none"}
NetworkResults ==
    { AnalysisResult(TRUE, "Network analysis completed successfully",
                     [ network_type |-> t ], None) : t \in NetworkTypes }
    \cup { AnalysisResult(FALSE, "Network analysis failed", None, "RuntimeError") }

\* VNetAnalyzer.analyze_workspace_vnet: never raises; reads the private
\* endpoint connections of the record handed to it.
analyze_workspace_vnet(workspace_info) ==
    LET pe_connections == Get(workspace_info, "private_endpoint_connections", <<>>)
    IN [ vnets                   |-> [ i \in 1..Len(pe_connections) |-> pe_connections[i].vnet ],
         subnets                 |-> [ i \in 1..Len(pe_connections) |-> pe_connections[i].subnet ],
         network_security_groups |-> <<>>,
         route_tables            |-> <<>>,
         analysis_summary        |-> "summary" ]

\* What ResourceDiscovery.analyze() returns (it catches every exception).
ResourceResults ==
    { AnalysisResult(TRUE, "Resource discovery completed successfully",
                     [ total_resources |-> n ], None) : n \in 0..1 }
    \cup { AnalysisResult(FALSE, "Resource discovery failed", None, "RuntimeError") }

\* Where report generation can raise inside step 6's try block.
ReportOutcomes == {"saved", "raise_before_write", "raise_after_md"}

Stages == {"prerequisites", "workspace", "network", "vnet", "resources", "report"}

Called(stage) == [ calls EXCEPT ![stage] = @ + 1 ]

NotRun      == [ kind |-> "not_run" ]
Gave(r)     == [ kind |-> "returned", result |-> r ]
Raised(e)   == [ kind |-> "raised", error |-> e ]

\* lines 157-163: the handler around the whole sequence
HandleUnexpected_reraise(e) == Escaped(e)
HandleUnexpected(e) ==
    Returned(AnalysisResult(FALSE, "Analysis failed due to unexpected error", None, e))

\* lines 40-42 and 49-51: a failed fatal step ends the run
AfterFatalStep_continue(step_result, next) == next
AfterFatalStep(step_result, next) ==
    IF ~step_result.success THEN "returned" ELSE next

\* lines 66-73 and 92-99: a failed stage is recorded and the run goes on
AfterStage_abort(stage_result_, next) ==
    IF ~stage_result_.success THEN "returned" ELSE next
AfterStage(stage_result_, next) == next

\* line 76 under the else of line 71: VNet analysis is run for a successful
\* network stage whose network_type is 'customer'
VNetWanted_any(network_result) ==
    network_result.success
VNetWanted(network_result) ==
    /\ network_result.success
    /\ Get(network_result.data, "network_type", None) = "customer"

\* lines 66-79: what step 3 stores under results['network']
RecordNetwork(res, network_result, vnet_info) ==
    IF ~network_result.success
    THEN ("network" :> [ error        |-> network_result.message,
                         partial_data |-> network_result.data ]) @@ res
    ELSE IF VNetWanted(network_result)
         THEN ("network" :> (("vnet_details" :> vnet_info) @@ network_result.data)) @@ res
         ELSE ("network" :> network_result.data) @@ res

\* lines 92-99: what step 4 stores under results['connected_resources']
RecordResources(res, resource_result) ==
    IF ~resource_result.success
    THEN ("connected_resources" :> [ error        |-> resource_result.message,
                                     partial_data |-> resource_result.data ]) @@ res
    ELSE ("connected_resources" :> resource_result.data) @@ res

\* line 131 (the timestamp is part of the name)
ReportFile == "connectivity-reports/ws_connectivity_T.md"

\* lines 134-140: report_location is stored after save() and complete_step
\* went through, so only when nothing was raised
RecordReport_always(res, o) == ("report_location" :> ReportFile) @@ res
RecordReport(res, o) ==
    IF o = "saved" THEN ("report_location" :> ReportFile) @@ res ELSE res

\* lines 116-123: the dict MarkdownReportGenerator is built from, which save()
\* renders into the document and dumps into the .json file (report_generator.py
\* lines 455 and 501); the summary is taken while step 6 is running
ReportInput(hub, res, details) ==
    [ hub_type       |-> hub,
      workspace_name |-> "ws",
      results        |-> res,
      summary        |-> get_summary(details) ]

\* lines 146-155
FinalResult(hub, res, details) ==
    AnalysisResult(TRUE, "Connectivity analysis completed successfully",
                   [ hub_type       |-> hub,
                     workspace_name |-> "ws",
                     results        |-> res,
                     summary        |-> get_summary(details) ],
                   None)

(***************************************************************************)
(* ConnectivityAnalyzer.analyze(), one action per start_step call and one  *)
(* per stage (the stage call, complete_step and the recording of results). *)
(***************************************************************************)
OrchIdle ==
    /\ pc = "idle"
    /\ current_step = 0
    /\ step_details = <<>>
    /\ results = << >>
    /\ calls = [ s \in Stages |-> 0 ]
    /\ stage_result = [ s \in Stages |-> NotRun ]
    /\ ret = NotReturned
    /\ artifacts = {}
    /\ persisted = << >>

\* __init__ (lines 13-19) and the tracker built at line 33
OrchInit ==
    /\ hub_type \in HubTypes
    /\ pc = "begin1"
    /\ current_step = 0
    /\ step_details = <<>>
    /\ results = << >>
    /\ calls = [ s \in Stages |-> 0 ]
    /\ stage_result = [ s \in Stages |-> NotRun ]
    /\ ret = NotReturned
    /\ artifacts = {}
    /\ persisted = << >>

\* start_step of step k (lines 37, 46, 56, 82, 102, 108)
BeginStep(k) ==
    /\ pc = "begin" \o ToString(k)
    /\ LET t == start_step(current_step, step_details, steps[k])
       IN /\ current_step' = t.current_step
          /\ step_details' = t.step_details
    /\ pc' = "run" \o ToString(k)
    /\ UNCHANGED <<hub_type, results, calls, stage_result, ret, artifacts, persisted, discVars, scoreVars, extVars>>

\* Step 1, lines 39-43
ValidatePrerequisites ==
    /\ pc = "run1"
    /\ calls' = Called("prerequisites")
    /\ \/ \E cli_ok \in BOOLEAN :
             LET prereq_result == _validate_prerequisites(cli_ok)
             IN /\ stage_result' = [ stage_result EXCEPT !["prerequisites"] = Gave(prereq_result) ]
                /\ step_details' = complete_step(step_details, prereq_result.success,
                                                 IF prereq_result.success THEN ""
                                                 ELSE prereq_result.message)
                /\ ret' = IF ~prereq_result.success THEN Returned(prereq_result) ELSE ret
                /\ pc' = AfterFatalStep(prereq_result, "begin2")
       \/ \E e \in UncaughtErrors :
             /\ stage_result' = [ stage_result EXCEPT !["prerequisites"] = Raised(e) ]
             /\ ret' = HandleUnexpected(e)
             /\ pc' = "returned"
             /\ UNCHANGED step_details
    /\ UNCHANGED <<hub_type, current_step, results, artifacts, persisted, discVars, scoreVars, extVars>>

\* Step 2, lines 48-53
ConnectToWorkspace ==
    /\ pc = "run2"
    /\ calls' = Called("workspace")
    /\ \E w \in WorkspaceOutcomes :
          LET workspace_result == _connect_to_workspace(w, hub_type)
          IN /\ stage_result' = [ stage_result EXCEPT !["workspace"] = Gave(workspace_result) ]
             /\ step_details' = complete_step(step_details, workspace_result.success,
                                              IF workspace_result.success THEN ""
                                              ELSE workspace_result.message)
             /\ ret' = IF ~workspace_result.success THEN Returned(workspace_result) ELSE ret
             /\ results' = IF ~workspace_result.success THEN results
                           ELSE ("workspace" :> workspace_result.data) @@ results
             /\ pc' = AfterFatalStep(workspace_result, "begin3")
    /\ UNCHANGED <<hub_type, current_step, artifacts, persisted, discVars, scoreVars, extVars>>

\* Step 3, lines 58-79
AnalyzeNetwork ==
    /\ pc = "run3"
    /\ \E network_result \in NetworkResults :
          LET vnet_info == analyze_workspace_vnet(results["workspace"])
          IN /\ step_details' = complete_step(step_details, network_result.success,
                                              IF network_result.success THEN ""
                                              ELSE network_result.message)
             /\ results' = RecordNetwork(results, network_result, vnet_info)
             /\ IF VNetWanted(network_result)
                THEN /\ calls' = [ calls EXCEPT !["network"] = @ + 1, !["vnet"] = @ + 1 ]
                     /\ stage_result' = [ stage_result EXCEPT !["network"] = Gave(network_result),
                                                              !["vnet"] = Gave(vnet_info) ]
                ELSE /\ calls' = Called("network")
                     /\ stage_result' = [ stage_result EXCEPT !["network"] = Gave(network_result) ]
             /\ pc' = AfterStage(network_result, "begin4")
    /\ UNCHANGED <<hub_type, current_step, ret, artifacts, persisted, discVars, scoreVars, extVars>>

\* Step 4, lines 84-99
DiscoverResources ==
    /\ pc = "run4"
    /\ calls' = Called("resources")
    /\ \E resource_result \in ResourceResults :
          /\ stage_result' = [ stage_result EXCEPT !["resources"] = Gave(resource_result) ]
          /\ step_details' = complete_step(step_details, resource_result.success,
                                           IF resource_result.success THEN ""
                                           ELSE resource_result.message)
          /\ results' = RecordResources(results, resource_result)
          /\ pc' = AfterStage(resource_result, "begin5")
    /\ UNCHANGED <<hub_type, current_step, ret, artifacts, persisted, discVars, scoreVars, extVars>>

\* Step 5, line 105: a placeholder that always reports success
AnalyzeSecurity ==
    /\ pc = "run5"
    /\ step_details' = complete_step(step_details, TRUE, "Security analysis completed")
    /\ pc' = "begin6"
    /\ UNCHANGED <<hub_type, current_step, results, calls, stage_result, ret, artifacts, persisted,
                   discVars, scoreVars, extVars>>

\* Step 6 and the final return, lines 110-155: an exception of the report
\* block is handled at lines 141-143 and the run still returns success.
GenerateReport ==
    /\ pc = "run6"
    /\ calls' = Called("report")
    /\ \E o \in ReportOutcomes :
          /\ artifacts' = CASE o = "saved"          -> {"md", "json"}
                            [] o = "raise_after_md" -> {"md"}
                            [] OTHER                -> {}
          /\ persisted' = IF o = "raise_before_write" THEN << >>
                          ELSE ReportInput(hub_type, results, step_details)
          /\ stage_result' = [ stage_result EXCEPT !["report"] =
                                 IF o = "saved" THEN Gave(ReportFile) ELSE Raised("OSError") ]
          /\ step_details' = complete_step(step_details, o = "saved",
                                           IF o = "saved" THEN "Report saved"
                                           ELSE "Report generation failed")
          /\ results' = RecordReport(results, o)
          /\ ret' = Returned(FinalResult(hub_type, results', step_details'))
    /\ pc' = "returned"
    /\ UNCHANGED <<hub_type, current_step, discVars, scoreVars, extVars>>

OrchNext ==
    \/ \E k \in 1..TotalSteps : BeginStep(k)
    \/ ValidatePrerequisites
    \/ ConnectToWorkspace
    \/ AnalyzeNetwork
    \/ DiscoverResources
    \/ AnalyzeSecurity
    \/ GenerateReport

DiscIdle ==
    /\ connected_resources = <<>>
    /\ dpc = "idle"
    /\ idx = 0
    /\ fetched = <<>>
    /\ subscription_id = None
    /\ requests = <<>>
    /\ dret = NotReturned

ScoreIdle ==
    /\ score_in = None
    /\ score_out = -1

NetIdle ==
    /\ net_workspace_info = << >>
    /\ network_config = << >>
    /\ npc = "idle"
    /\ nqueries = << >>
    /\ nret = NotReturned

NsgIdle ==
    /\ nsg_rules = << >>
    /\ rules_summary = << >>

VNetIdle ==
    /\ vnet_workspace_info = << >>
    /\ vnet_world = << >>
    /\ vpc = "idle"
    /\ subnet_ids = << >>
    /\ vnet_out = << >>
    /\ vfetched = {}
    /\ vasked = << >>

CmpIdle ==
    /\ cmp_ws = << >>
    /\ cmp_analysis = << >>
    /\ cmp_pc = "idle"
    /\ cmp_fwd = << >>
    /\ cmp_bwd = << >>

RecIdle ==
    /\ rec_differences = << >>
    /\ recommendation = None

CliIdle ==
    /\ cli_cmd = << >>
    /\ cli_subscription = None
    /\ cli_run = << >>
    /\ cli_ret = << >>

RepIdle ==
    /\ rep_now = 0
    /\ rep_runs = << >>
    /\ rep_files = << >>

LateIdle == CliIdle /\ RepIdle
MoreIdle == NsgIdle /\ VNetIdle /\ CmpIdle /\ RecIdle /\ LateIdle
BaseIdle == OrchIdle /\ DiscIdle /\ ScoreIdle /\ NetIdle
ExtIdle == NetIdle /\ MoreIdle

Init == OrchInit /\ DiscIdle /\ ScoreIdle /\ ExtIdle
Next == OrchNext
Spec == Init /\ [][Next]_vars

(***************************************************************************)
(* Properties of ConnectivityAnalyzer.analyze() (checked under Spec)       *)
(***************************************************************************)
Failed(stage) ==
    /\ stage_result[stage].kind = "returned"
    /\ ~stage_result[stage].result.success

Succeeded(stage) ==
    /\ stage_result[stage].kind = "returned"
    /\ stage_result[stage].result.success

Terminal(status) == status \in {"success", "failed"}

\* C1: when step 1 (prerequisites) or step 2 (workspace connection) returns a
\* failure, analyze() returns exactly that step's failure envelope
\* (success = false) and no later stage is ever invoked: after a step-1
\* failure neither workspace connection, network analysis, VNet analysis,
\* resource discovery nor report generation; after a step-2 failure none of
\* the last four.
C1_FatalStepEndsRun ==
    /\ Failed("prerequisites") =>
          /\ pc = "returned"
          /\ ret = Returned(stage_result["prerequisites"].result)
          /\ ~ret.result.success
          /\ \A s \in Stages \ {"prerequisites"} : calls[s] = 0
    /\ Failed("workspace") =>
          /\ pc = "returned"
          /\ ret = Returned(stage_result["workspace"].result)
          /\ ~ret.result.success
          /\ \A s \in {"network", "vnet", "resources", "report"} : calls[s] = 0

C1_Witness ==
    /\ pc = "returned"
    /\ Succeeded("prerequisites")
    /\ Failed("workspace")
    /\ calls["workspace"] = 1
    /\ step_details[2].status = "failed"

\* C2: when steps 1 and 2 succeed and the network stage (step 3) returns
\* success = false, resource discovery (step 4) is invoked in the same run
\* and the result analyze() returns carries a non-null
\* results.connected_resources.
C2_NetworkFailureStillDiscovers ==
    (pc = "returned" /\ Succeeded("prerequisites") /\ Succeeded("workspace")
        /\ Failed("network")) =>
       /\ calls["resources"] = 1
       /\ ret.returned
       /\ "connected_resources" \in DOMAIN ret.result.data["results"]
       /\ DOMAIN ret.result.data["results"]["connected_resources"] # {}

C2_Witness ==
    /\ pc = "returned"
    /\ Failed("network")
    /\ Succeeded("resources")
    /\ "connected_resources" \in DOMAIN results

\* C3: whenever steps 1 and 2 succeed, analyze() returns success = true with
\* data {hub_type, workspace_name, results, summary}, whatever steps 3, 4
\* and 6 did; a failed step 3 or 4 is stored under its stage key as
\* {error, partial_data} and its step record is marked failed.
C3_NonFatalStagesKeepSuccess ==
    (pc = "returned" /\ Succeeded("prerequisites") /\ Succeeded("workspace")) =>
       /\ ret.returned
       /\ ret.result.success
       /\ DOMAIN ret.result.data = {"hub_type", "workspace_name", "results", "summary"}
       /\ ret.result.data["results"] = results
       /\ Failed("network") =>
             /\ DOMAIN results["network"] = {"error", "partial_data"}
             /\ step_details[3].status = "failed"
       /\ Failed("resources") =>
             /\ DOMAIN results["connected_resources"] = {"error", "partial_data"}
             /\ step_details[4].status = "failed"

C3_Witness ==
    /\ pc = "returned"
    /\ Failed("network")
    /\ Failed("resources")
    /\ stage_result["report"].kind = "raised"
    /\ ret.result.success

\* C4 as claimed: analyze() never raises, and an exception raised by any
\* stage or step of the six-step sequence ends in
\* AnalysisResult(success = false, error = str(e)).
C4_AnyExceptionGivesFailure ==
    pc = "returned" =>
       /\ ret.returned
       /\ \A s \in Stages :
             stage_result[s].kind = "raised" =>
                /\ ~ret.result.success
                /\ ret.result.error = stage_result[s].error

\* C4 amended: analyze() never raises; an exception that reaches the handler
\* around the sequence (raised in steps 1 to 5) is returned as
\* AnalysisResult(success = false, error = str(e)), while an exception raised
\* by report generation in step 6 is caught by step 6 itself, which marks the
\* step failed, and analyze() still returns success = true.
C4_NeverRaises ==
    pc = "returned" =>
       /\ ret.returned
       /\ ret.raised = None
       /\ \A s \in Stages \ {"report"} :
             stage_result[s].kind = "raised" =>
                /\ ~ret.result.success
                /\ ret.result.error = stage_result[s].error
       /\ stage_result["report"].kind = "raised" =>
             /\ ret.result.success
             /\ step_details[6].status = "failed"

C4_Witness ==
    /\ pc = "returned"
    /\ stage_result["prerequisites"].kind = "raised"
    /\ ret.returned
    /\ ret.result.error = "PermissionError"

\* C5: VNet analysis is invoked if and only if the network stage returned
\* success with network_type 'customer'; then results.network.vnet_details
\* is its output, and otherwise results.network has no vnet_details entry.
C5_VNetOnlyForCustomer ==
    /\ calls["vnet"] =< 1
    /\ (calls["vnet"] = 1) <=>
          (Succeeded("network")
             /\ stage_result["network"].result.data["network_type"] = "customer")
    /\ "network" \in DOMAIN results =>
          IF calls["vnet"] = 1
          THEN /\ "vnet_details" \in DOMAIN results["network"]
               /\ results["network"]["vnet_details"] = stage_result["vnet"].result
          ELSE "vnet_details" \notin DOMAIN results["network"]

C5_Witness ==
    /\ calls["vnet"] = 1
    /\ "network" \in DOMAIN results
    /\ "vnet_details" \in DOMAIN results["network"]
    /\ pc = "returned"

\* C6: in a run where neither fatal step fails and no exception escapes, the
\* progress trace on return holds exactly six records numbered 1..6 in the
\* fixed order, each success or failed, step 5 success; during the run
\* records are only appended (never removed or reordered) and a step is
\* started only when the previous one has a terminal status.
C6_TraceOnReturn ==
    (pc = "returned" /\ ret.returned /\ ret.result.success) =>
       /\ Len(step_details) = TotalSteps
       /\ \A i \in 1..TotalSteps :
             /\ step_details[i].step = i
             /\ step_details[i].name = steps[i]
             /\ Terminal(step_details[i].status)
       /\ step_details[5].status = "success"

C6_AppendOnly ==
    /\ Len(step_details') >= Len(step_details)
    /\ \A i \in 1..Len(step_details) :
          /\ step_details'[i].step = step_details[i].step
          /\ step_details'[i].name = step_details[i].name
    /\ Len(step_details') > Len(step_details) =>
          /\ Len(step_details') = Len(step_details) + 1
          /\ \A i \in 1..Len(step_details) : Terminal(step_details[i].status)

C6_SixStepTrace == [](C6_TraceOnReturn) /\ [][C6_AppendOnly]_vars

C6_Witness ==
    /\ pc = "returned"
    /\ ret.result.success
    /\ Len(step_details) = 6
    /\ step_details[3].status = "failed"
    /\ step_details[4].status = "success"
    /\ step_details[6].status = "failed"

\* C21: when report generation raises, step 6 is marked failed, the run
\* records no report_location and analyze() still returns success = true;
\* report_location is recorded only when both the document and its .json
\* sibling have been written.
C21_ReportStepNonFatal ==
    /\ stage_result["report"].kind = "raised" =>
          /\ pc = "returned"
          /\ step_details[6].status = "failed"
          /\ "report_location" \notin DOMAIN results
          /\ ret.returned
          /\ ret.result.success
          /\ "report_location" \notin DOMAIN ret.result.data["results"]
    /\ "report_location" \in DOMAIN results =>
          /\ artifacts = {"md", "json"}
          /\ stage_result["report"].kind = "returned"

C21_Witness ==
    /\ pc = "returned"
    /\ stage_result["report"].kind = "raised"
    /\ artifacts = {"md"}
    /\ ret.result.success
    /\ step_details[6].status = "failed"

\* C26: the progress summary inside the report files a run wrote agrees
\* with the summary in the result the run returns: each of the six steps has
\* the same status, success or failed, in both, and no persisted record is
\* in_progress.
C26_PersistedSummaryAgrees ==
    (pc = "returned" /\ artifacts # {}) =>
        /\ Len(persisted.summary.step_details) = TotalSteps
        /\ \A i \in 1..TotalSteps :
              /\ persisted.summary.step_details[i].status
                   = ret.result.data.summary.step_details[i].status
              /\ persisted.summary.step_details[i].status # "in_progress"

\* C30: at every point of a run the tracker's current_step is the number of
\* step records and at most total_steps, record i carries step number i, at
\* most one record is in_progress and it is the last one, and
\* successful_steps + failed_steps of get_summary counts exactly the records
\* that are not in_progress.
C30_TrackerConsistent ==
    /\ current_step = Len(step_details)
    /\ current_step <= TotalSteps
    /\ \A i \in 1..Len(step_details) :
          /\ step_details[i].step = i
          /\ step_details[i].status = "in_progress" => i = Len(step_details)
    /\ LET summary == get_summary(step_details)
       IN  /\ summary.total_steps = 6
           /\ summary.completed_steps = Len(step_details)
           /\ summary.successful_steps + summary.failed_steps
                = Cardinality({ i \in 1..Len(step_details) :
                                  step_details[i].status # "in_progress" })

C30_Witness ==
    /\ pc = "run3"
    /\ current_step = 3
    /\ step_details[1].status = "success"
    /\ step_details[3].status = "in_progress"
    /\ get_summary(step_details).successful_steps = 2
    /\ get_summary(step_details).failed_steps = 0

(***************************************************************************)
(* ResourceDiscovery: resource ids                                         *)
(*                                                                         *)
(* A resource id is kept as the list of its '/'-separated parts, that is   *)
(* as resource_id.split('/'); the id starts with '/', so part 1 is ''.     *)
(***************************************************************************)
ArmId(sub, rg, provider, kind, name) ==
    << "", "subscriptions", sub, "resourceGroups", rg, "providers", provider, kind, name >>

NoId == << >>      \* a missing, None or empty id

StorageType   == "Microsoft.Storage/storageAccounts"
KeyVaultType  == "Microsoft.KeyVault/vaults"
RegistryType  == "Microsoft.ContainerRegistry/registries"
InsightsType  == "Microsoft.Insights/components"
CognitiveType == "Microsoft.CognitiveServices/accounts"
VNetType      == "Microsoft.Network/virtualNetworks"
ClusterType   == "Microsoft.ContainerService/managedClusters"

ResourceTypes == { StorageType, KeyVaultType, RegistryType, InsightsType,
                   CognitiveType, VNetType, ClusterType }
ConnectionTypes == {"default", "associated", "user-defined"}

SA1     == ArmId("sub1", "rg1", "Microsoft.Storage", "storageAccounts", "sa1")
KV1     == ArmId("sub1", "rg1", "Microsoft.KeyVault", "vaults", "kv1")
KVShort == << "", "vaults", "kv1" >>
ACR1    == ArmId("sub1", "rg1", "Microsoft.ContainerRegistry", "registries", "acr1")
APPI1   == ArmId("sub1", "rg1", "Microsoft.Insights", "components", "appi1")
AKS1    == ArmId("sub1", "rg2", "Microsoft.ContainerService", "managedClusters", "aks1")
SubnetA == ArmId("sub1", "rg-net", "Microsoft.Network", "virtualNetworks", "vnetA")
              \o << "subnets", "default" >>
SubnetB == ArmId("sub1", "rg-net", "Microsoft.Network", "virtualNetworks", "vnetA")
              \o << "subnets", "training" >>

MinIdParts == 9

\* ConnectedResource as _add_resource constructs it (lines 257-264)
NewResource(resource_id, resource_type, connection_type) ==
    [ resource_id           |-> resource_id,
      resource_type         |-> resource_type,
      name                  |-> resource_id[Len(resource_id)],
      resource_group        |-> resource_id[5],
      connection_type       |-> connection_type,
      access_method         |-> "unknown",
      private_endpoints     |-> << >>,
      public_access_enabled |-> TRUE,
      firewall_rules        |-> << >>,
      network_acls          |-> "{}" ]

\* _add_resource (lines 250-268)
_add_resource_no_check(list, resource_id, resource_type, connection_type) ==
    IF Len(resource_id) >= MinIdParts
    THEN Append(list, NewResource(resource_id, resource_type, connection_type))
    ELSE list
_add_resource(list, resource_id, resource_type, connection_type) ==
    IF Len(resource_id) >= MinIdParts
    THEN IF ~ \E i \in 1..Len(list) : list[i].resource_id = resource_id
         THEN Append(list, NewResource(resource_id, resource_type, connection_type))
         ELSE list
    ELSE list

Request(resource_id, resource_type, connection_type) ==
    [ resource_id |-> resource_id, resource_type |-> resource_type,
      connection_type |-> connection_type ]

\* the _add_resource calls of one discovery method, applied in call order
RECURSIVE AddAll(_, _)
AddAll(list, reqs) ==
    IF reqs = << >> THEN list
    ELSE AddAll(_add_resource(list, Head(reqs).resource_id, Head(reqs).resource_type,
                              Head(reqs).connection_type),
                Tail(reqs))

\* str.lower() on the type strings the queries return
Lower(s) ==
    CASE s = "ComputeInstance" -> "computeinstance"
      [] s = "AmlCompute"      -> "amlcompute"
      [] s = "Kubernetes"      -> "kubernetes"
      [] s = "AzureBlob"       -> "azureblob"
      [] s = "Azure_OpenAI"    -> "azure_openai"
      [] s = "Allow"           -> "allow"
      [] s = "Deny"            -> "deny"
      [] s = "Inbound"         -> "inbound"
      [] s = "Outbound"        -> "outbound"
      [] OTHER                 -> s

\* _discover_default_resources (lines 103-139): the calls it makes
DefaultRequests(workspace_info) ==
    (IF workspace_info.storage_account # NoId
     THEN << Request(workspace_info.storage_account, StorageType, "default") >> ELSE << >>)
    \o (IF workspace_info.key_vault # NoId
        THEN << Request(workspace_info.key_vault, KeyVaultType, "default") >> ELSE << >>)
    \o (IF workspace_info.container_registry # NoId
        THEN << Request(workspace_info.container_registry, RegistryType, "default") >> ELSE << >>)
    \o (IF workspace_info.application_insights # NoId
        THEN << Request(workspace_info.application_insights, InsightsType, "default") >> ELSE << >>)

\* _add_compute_instance / _add_compute_cluster (lines 270-297): the VNet of
\* the compute's subnet, '/'.join(subnet_id.split('/')[:-2])
VNetOfSubnet(subnet_id) ==
    SubSeq(subnet_id, 1, Len(subnet_id) - 2)

\* one iteration of the loop of _discover_compute_resources (lines 168-177)
ComputeRequest(compute) ==
    LET compute_type == Lower(compute.type)
    IN CASE compute_type \in {"computeinstance", "amlcompute"} ->
              IF compute.subnet # NoId
              THEN << Request(VNetOfSubnet(compute.subnet), VNetType, "associated") >>
              ELSE << >>
         [] compute_type = "kubernetes" ->
              IF compute.resourceId # NoId
              THEN << Request(compute.resourceId, ClusterType, "associated") >>
              ELSE << >>
         [] OTHER -> << >>

RECURSIVE ComputeRequests(_)
ComputeRequests(computes) ==
    IF computes = << >> THEN << >>
    ELSE ComputeRequest(Head(computes)) \o ComputeRequests(Tail(computes))

\* line 204: the id built for a blob datastore's storage account
DatastoreResourceId(sub, account_name) ==
    ArmId(IF sub = None THEN "unknown" ELSE sub, "*",
          "Microsoft.Storage", "storageAccounts", account_name)

\* one iteration of the loop of _discover_datastores (lines 197-209)
DatastoreRequest(sub, datastore) ==
    IF Lower(datastore.type) = "azure_blob" /\ datastore.account_name # ""
    THEN << Request(DatastoreResourceId(sub, datastore.account_name), StorageType,
                    "user-defined") >>
    ELSE << >>

RECURSIVE DatastoreRequests(_, _)
DatastoreRequests(sub, datastores) ==
    IF datastores = << >> THEN << >>
    ELSE DatastoreRequest(sub, Head(datastores)) \o DatastoreRequests(sub, Tail(datastores))

\* lines 321 and 337: the id built for a connection's target; a target is
\* kept as its scheme ('' when it has no '://') and the '.'-separated
\* labels of its host
ServiceResourceId(sub, target) ==
    ArmId(IF sub = None THEN "unknown" ELSE sub, "*",
          "Microsoft.CognitiveServices", "accounts",
          IF target.host = << >> THEN "" ELSE Head(target.host))

\* one iteration of the loop of _discover_user_connections (lines 230-239)
ConnectionRequest(sub, conn) ==
    LET conn_type == Lower(conn.type)
    IN IF conn_type \in {"azure_openai", "cognitive_services"} /\ conn.target.scheme # ""
       THEN << Request(ServiceResourceId(sub, conn.target), CognitiveType, "user-defined") >>
       ELSE << >>

RECURSIVE ConnectionRequests(_, _)
ConnectionRequests(sub, conns) ==
    IF conns = << >> THEN << >>
    ELSE ConnectionRequest(sub, Head(conns)) \o ConnectionRequests(sub, Tail(conns))

\* line 58
WantsUserConnections(hub) == hub = "azure-ai-foundry"

(***************************************************************************)
(* What the queries of a discovery run can return                          *)
(***************************************************************************)
MaxComputes   == 2
MaxDatastores == 2
MaxConnections == 2

SubscriptionIds == { None, "sub1" }

WorkspaceInfos ==
    [ storage_account      : { NoId, SA1 },
      key_vault            : { NoId, KV1, KVShort },
      container_registry   : { NoId, ACR1 },
      application_insights : { NoId, APPI1 } ]

ComputeItems ==
    { [ type |-> "ComputeInstance", subnet |-> SubnetA, resourceId |-> NoId ],
      [ type |-> "AmlCompute",      subnet |-> SubnetB, resourceId |-> NoId ],
      [ type |-> "AmlCompute",      subnet |-> NoId,    resourceId |-> NoId ],
      [ type |-> "Kubernetes",      subnet |-> NoId,    resourceId |-> AKS1 ] }

DatastoreItems ==
    { [ type |-> "azure_blob", account_name |-> "sa1" ],
      [ type |-> "azure_blob", account_name |-> "" ],
      [ type |-> "azure_file", account_name |-> "sa1" ] }

ConnectionItems ==
    { [ type |-> "azure_openai",
        target |-> [ scheme |-> "https", host |-> << "cs1", "openai", "azure", "com" >> ] ],
      [ type |-> "cognitive_services",
        target |-> [ scheme |-> "https", host |-> << "cs1", "cognitiveservices", "azure", "com" >> ] ],
      [ type |-> "custom",
        target |-> [ scheme |-> "https", host |-> << "example", "com" >> ] ] }

SeqsUpTo(S, n) == UNION { [ 1..k -> S ] : k \in 0..n }

\* a list query: the parsed list, or nothing (non-zero exit, timeout or
\* unparsable output, all of which leave the resource list as it is)
ListOutcomes(S, n) == SeqsUpTo(S, n)

(***************************************************************************)
(* ResourceDiscovery.analyze() up to the analysis loop (lines 47-59)       *)
(***************************************************************************)
DiscInit ==
    /\ hub_type \in HubTypes
    /\ subscription_id \in SubscriptionIds
    /\ connected_resources = << >>
    /\ requests = << >>
    /\ dpc = "defaults"
    /\ idx = 0
    /\ fetched = << >>
    /\ dret = NotReturned

Discover(reqs, next) ==
    /\ connected_resources' = AddAll(connected_resources, reqs)
    /\ requests' = requests \o reqs
    /\ dpc' = next
    /\ UNCHANGED <<hub_type, subscription_id, idx, fetched, dret, orchVars, scoreVars, extVars>>

\* lines 49-52: _get_workspace_info raises when the query fails, and
\* analyze() then returns a failure (lines 74-80)
DiscoverDefaultResources ==
    /\ dpc = "defaults"
    /\ \/ \E workspace_info \in WorkspaceInfos :
             Discover(DefaultRequests(workspace_info), "compute")
       \/ /\ dret' = Returned(AnalysisResult(FALSE, "Resource discovery failed", None,
                                             "Failed to get workspace info"))
          /\ dpc' = "done"
          /\ UNCHANGED <<hub_type, subscription_id, connected_resources, requests, idx,
                         fetched, orchVars, scoreVars, extVars>>

\* _discover_compute_resources (lines 153-180)
DiscoverComputeResources ==
    /\ dpc = "compute"
    /\ \E computes \in ListOutcomes(ComputeItems, MaxComputes) :
          Discover(ComputeRequests(computes), "datastores")

\* line 58, evaluated when _discover_associated_resources has returned: the
\* run enters _discover_user_connections or goes on to the analysis loop
AfterAssociated(hub) == IF WantsUserConnections(hub) THEN "connections" ELSE "analyze"

\* _discover_datastores (lines 182-212), the last call of
\* _discover_associated_resources, and the test of line 58
DiscoverDatastores ==
    /\ dpc = "datastores"
    /\ \E datastores \in ListOutcomes(DatastoreItems, MaxDatastores) :
          Discover(DatastoreRequests(subscription_id, datastores),
                   AfterAssociated(hub_type))

\* line 59 and _discover_user_connections (lines 214-242)
DiscoverUserConnections ==
    /\ dpc = "connections"
    /\ \E conns \in ListOutcomes(ConnectionItems, MaxConnections) :
          Discover(ConnectionRequests(subscription_id, conns), "analyze")

DiscNext ==
    \/ DiscoverDefaultResources
    \/ DiscoverComputeResources
    \/ DiscoverDatastores
    \/ DiscoverUserConnections

InitDiscovery == DiscInit /\ OrchIdle /\ ScoreIdle /\ ExtIdle
SpecDiscovery == InitDiscovery /\ [][DiscNext]_vars

\* the hub-type values by which the callers name an AI Foundry hub: the
\* --hub-type choice of the command line (cli_params.py lines 41-44, passed
\* on lower-cased by main.py) and the WorkspaceInfo the interactive selector
\* builds for a hub (workspace_selector.py line 148)
CallerFoundryHubTypes == { "ai-foundry" }

\* C22: user-defined connection discovery runs for AI Foundry hubs and only
\* for them: for every hub-type value by which the callers identify an AI
\* Foundry hub, analyze() goes into _discover_user_connections once the
\* associated resources are discovered, and for an Azure ML workspace it
\* never does.
C22_UserConnectionsForFoundryHubs ==
    /\ [][(dpc = "datastores" /\ dpc' # "datastores"
            /\ hub_type \in CallerFoundryHubTypes) => dpc' = "connections"]_vars
    /\ [](dpc = "connections" => hub_type # "azure-ml")

\* C27: a storage account that is the workspace's default storage and also
\* the backing account of a blob datastore is in connected_resources exactly
\* once: no two entries have the same resource_type and the same name.
C27_OneEntryPerTypeAndName ==
    \A i, j \in DOMAIN connected_resources :
        (/\ connected_resources[i].resource_type = connected_resources[j].resource_type
         /\ connected_resources[i].name = connected_resources[j].name) => i = j

\* C7: after any sequence of _add_resource calls of a discovery run no two
\* entries of connected_resources share a resource_id; the list holds, in
\* order, the first call made for each id; and a call for an id that is
\* already present leaves the list, with the entry's resource_type and
\* connection_type, as it is.
FirstCallFor(id) ==
    requests[CHOOSE i \in 1..Len(requests) :
                /\ requests[i].resource_id = id
                /\ \A j \in 1..(i - 1) : requests[j].resource_id # id]

C7_AddResourceDeduplicates ==
    /\ \A i, j \in 1..Len(connected_resources) :
          connected_resources[i].resource_id = connected_resources[j].resource_id => i = j
    /\ \A k \in 1..Len(requests) :
          Len(requests[k].resource_id) >= MinIdParts =>
             \E i \in 1..Len(connected_resources) :
                connected_resources[i].resource_id = requests[k].resource_id
    /\ \A i \in 1..Len(connected_resources) :
          LET r == connected_resources[i]
          IN /\ \E k \in 1..Len(requests) : requests[k].resource_id = r.resource_id
             /\ r.resource_type = FirstCallFor(r.resource_id).resource_type
             /\ r.connection_type = FirstCallFor(r.resource_id).connection_type
             /\ \A t \in ResourceTypes, c \in ConnectionTypes :
                   _add_resource(connected_resources, r.resource_id, t, c)
                      = connected_resources

C7_Witness ==
    /\ dpc = "analyze"
    /\ \E i, j \in 1..Len(requests) :
          /\ i < j
          /\ requests[i].resource_id = requests[j].resource_id
          /\ Len(requests[i].resource_id) >= MinIdParts
    /\ Len(connected_resources) >= 3

(***************************************************************************)
(* ConnectedResource.get_security_score (lines 21-34)                      *)
(***************************************************************************)
Max(a, b) == IF a >= b THEN a ELSE b

get_security_score_no_endpoint_check(resource) ==
    LET s1 == IF resource.public_access_enabled THEN 100 - 30 ELSE 100
        s2 == IF resource.access_method = "public" THEN s1 - 20 ELSE s1
        s4 == IF resource.firewall_rules = << >> THEN s2 - 10 ELSE s2
    IN Max(0, s4)
get_security_score(resource) ==
    LET s1 == IF resource.public_access_enabled THEN 100 - 30 ELSE 100
        s2 == IF resource.access_method = "public" THEN s1 - 20 ELSE s1
        s3 == IF resource.private_endpoints = << >> THEN s2 - 10 ELSE s2
        s4 == IF resource.firewall_rules = << >> THEN s3 - 10 ELSE s3
    IN Max(0, s4)

(***************************************************************************)
(* Per-resource detail analysis (lines 350-533)                            *)
(*                                                                         *)
(* A detail query result q has kind "nonzero" (exit code not 0), "raise"   *)
(* (timeout or unparsable output, handled by the analyser's except) or     *)
(* "ok"; for "ok" it carries the publicNetworkAccess value (or "absent"),  *)
(* the private endpoint connections and, for a key vault, the outcome acl  *)
(* of the second query (network-rule list).                                *)
(***************************************************************************)
MaxEndpoints == 1

PNAValues == {"Enabled", "Disabled", "absent"}

\* a JSON value that is an array or null, as json.loads hands it over
JsonArray(items) == [ null |-> FALSE, items |-> items ]
JsonNull         == [ null |-> TRUE,  items |-> << >> ]

PEConnection(i) == [ name |-> i, status |-> "Approved" ]
PELists ==
    { JsonArray([ i \in 1..n |-> PEConnection(i) ]) : n \in 0..MaxEndpoints }
    \cup { JsonNull }

FailedQueries ==
    [ kind : {"nonzero", "raise"}, pna : {"absent"}, pes : { JsonArray(<< >>) },
      acl : {"none"} ]
DetailOutcomes(resource_type) ==
    FailedQueries
    \cup [ kind : {"ok"}, pna : PNAValues, pes : PELists,
           acl : IF resource_type = KeyVaultType THEN {"ok", "nonzero", "raise"}
                 ELSE {"none"} ]
NoQuery == [ kind |-> "skipped", pna |-> "absent", pes |-> JsonArray(<< >>), acl |-> "none" ]

\* the JSON documents the four show commands print: storage accounts and
\* registries carry the fields at top level, key vaults and cognitive
\* services accounts under 'properties'
TopLevelFields(q) ==
    (IF q.pna = "absent" THEN << >> ELSE [ k \in {"publicNetworkAccess"} |-> q.pna ])
    @@ [ k \in {"privateEndpointConnections"} |->
           IF q.pes.null THEN JsonNull
           ELSE JsonArray([ i \in 1..Len(q.pes.items) |->
                   [ name |-> q.pes.items[i].name,
                     privateLinkServiceConnectionState |->
                         [ status |-> q.pes.items[i].status ] ] ]) ]
PropertiesFields(q) ==
    (IF q.pna = "absent" THEN << >> ELSE [ k \in {"publicNetworkAccess"} |-> q.pna ])
    @@ [ k \in {"privateEndpointConnections"} |->
           IF q.pes.null THEN JsonNull
           ELSE JsonArray([ i \in 1..Len(q.pes.items) |->
                   [ name |-> q.pes.items[i].name,
                     properties |-> [ privateLinkServiceConnectionState |->
                                        [ status |-> q.pes.items[i].status ] ] ] ]) ]
StorageDoc(q)   == TopLevelFields(q) @@ [ k \in {"networkAcls"} |-> "storage-acls" ]
RegistryDoc(q)  == TopLevelFields(q)
KeyVaultDoc(q)  == [ properties |-> PropertiesFields(q) ]
CognitiveDoc(q) == [ properties |-> PropertiesFields(q) ]

\* _analyze_storage_account (lines 363-405); 'for pe in private_endpoints'
\* raises TypeError on null, and the except of line 404 ends the analyser
_analyze_storage_account(resource, q) ==
    IF q.kind # "ok" THEN resource
    ELSE
      LET storage_info == StorageDoc(q)
          r0 == [ resource EXCEPT
                    !.public_access_enabled =
                        (Get(storage_info, "publicNetworkAccess", "Enabled") = "Enabled") ]
          private_endpoints == Get(storage_info, "privateEndpointConnections", JsonArray(<< >>))
      IN IF private_endpoints.null THEN r0
         ELSE
           LET r1 == [ r0 EXCEPT
                         !.private_endpoints = @ \o
                             [ i \in 1..Len(private_endpoints.items) |->
                                 [ name  |-> private_endpoints.items[i].name,
                                   state |-> private_endpoints.items[i].privateLinkServiceConnectionState.status ] ],
                         !.network_acls = Get(storage_info, "networkAcls", "{}") ]
           IN [ r1 EXCEPT !.access_method = IF r1.private_endpoints # << >> THEN "private-endpoint"
                                            ELSE IF ~r1.public_access_enabled THEN "service-endpoint"
                                            ELSE "public" ]

\* _analyze_key_vault (lines 407-455): the second query (lines 435-444) runs
\* after the resource has been updated from the first one
_analyze_key_vault(resource, q) ==
    IF q.kind # "ok" THEN resource
    ELSE
      LET kv_info == KeyVaultDoc(q)
          r0 == [ resource EXCEPT
                    !.public_access_enabled =
                        (Get(Get(kv_info, "properties", << >>),
                             "publicNetworkAccess", "Enabled") = "Enabled") ]
          private_endpoints == Get(Get(kv_info, "properties", << >>),
                                   "privateEndpointConnections", JsonArray(<< >>))
      IN IF private_endpoints.null THEN r0
         ELSE
           LET r1 == [ r0 EXCEPT
                         !.private_endpoints = @ \o
                             [ i \in 1..Len(private_endpoints.items) |->
                                 [ name  |-> private_endpoints.items[i].name,
                                   state |-> private_endpoints.items[i].properties.privateLinkServiceConnectionState.status ] ] ]
               r2 == IF q.acl = "ok"
                     THEN [ r1 EXCEPT !.network_acls = "keyvault-network-rules" ]
                     ELSE r1
           IN IF q.acl = "raise" THEN r1
              ELSE [ r2 EXCEPT !.access_method = IF r2.private_endpoints # << >> THEN "private-endpoint"
                                                 ELSE IF ~r2.public_access_enabled THEN "service-endpoint"
                                                 ELSE "public" ]

\* _analyze_container_registry (lines 457-494)
_analyze_container_registry(resource, q) ==
    IF q.kind # "ok" THEN resource
    ELSE
      LET acr_info == RegistryDoc(q)
          r0 == [ resource EXCEPT
                    !.public_access_enabled =
                        (Get(acr_info, "publicNetworkAccess", "Enabled") = "Enabled") ]
          private_endpoints == Get(acr_info, "privateEndpointConnections", JsonArray(<< >>))
      IN IF private_endpoints.null THEN r0
         ELSE
           LET r1 == [ r0 EXCEPT
                         !.private_endpoints = @ \o
                             [ i \in 1..Len(private_endpoints.items) |->
                                 [ name  |-> private_endpoints.items[i].name,
                                   state |-> private_endpoints.items[i].privateLinkServiceConnectionState.status ] ] ]
           IN [ r1 EXCEPT !.access_method = IF r1.private_endpoints # << >> THEN "private-endpoint"
                                            ELSE IF ~r1.public_access_enabled THEN "service-endpoint"
                                            ELSE "public" ]

\* _analyze_cognitive_services (lines 496-533)
_analyze_cognitive_services(resource, q) ==
    IF q.kind # "ok" THEN resource
    ELSE
      LET cs_info == CognitiveDoc(q)
          r0 == [ resource EXCEPT
                    !.public_access_enabled =
                        (Get(Get(cs_info, "properties", << >>),
                             "publicNetworkAccess", "Enabled") = "Enabled") ]
          private_endpoints == Get(Get(cs_info, "properties", << >>),
                                   "privateEndpointConnections", JsonArray(<< >>))
      IN IF private_endpoints.null THEN r0
         ELSE
           LET r1 == [ r0 EXCEPT
                         !.private_endpoints = @ \o
                             [ i \in 1..Len(private_endpoints.items) |->
                                 [ name  |-> private_endpoints.items[i].name,
                                   state |-> private_endpoints.items[i].properties.privateLinkServiceConnectionState.status ] ] ]
           IN [ r1 EXCEPT !.access_method = IF r1.private_endpoints # << >> THEN "private-endpoint"
                                            ELSE IF ~r1.public_access_enabled THEN "service-endpoint"
                                            ELSE "public" ]

AnalysedTypes == { StorageType, KeyVaultType, RegistryType, CognitiveType }

\* _analyze_resource (lines 350-361): dispatch on resource_type
_analyze_resource_acls_as_firewall_rules(resource, q) ==
    LET analysed ==
            CASE resource.resource_type = StorageType   -> _analyze_storage_account(resource, q)
              [] resource.resource_type = KeyVaultType  -> _analyze_key_vault(resource, q)
              [] resource.resource_type = RegistryType  -> _analyze_container_registry(resource, q)
              [] resource.resource_type = CognitiveType -> _analyze_cognitive_services(resource, q)
              [] OTHER -> resource
    IN  [ analysed EXCEPT !.firewall_rules =
              IF analysed.network_acls = "{}" THEN << >> ELSE << analysed.network_acls >> ]
_analyze_resource(resource, q) ==
    CASE resource.resource_type = StorageType   -> _analyze_storage_account(resource, q)
      [] resource.resource_type = KeyVaultType  -> _analyze_key_vault(resource, q)
      [] resource.resource_type = RegistryType  -> _analyze_container_registry(resource, q)
      [] resource.resource_type = CognitiveType -> _analyze_cognitive_services(resource, q)
      [] OTHER -> resource

\* resource_type.split('/')[-1] (line 553)
ShortType(resource_type) ==
    CASE resource_type = StorageType   -> "storageAccounts"
      [] resource_type = KeyVaultType  -> "vaults"
      [] resource_type = RegistryType  -> "registries"
      [] resource_type = InsightsType  -> "components"
      [] resource_type = CognitiveType -> "accounts"
      [] resource_type = VNetType      -> "virtualNetworks"
      [] resource_type = ClusterType   -> "managedClusters"

\* the entry _format_discovery_results builds for one resource (lines 557-565)
FormatResource(resource) ==
    [ name              |-> resource.name,
      resource_group    |-> resource.resource_group,
      connection_type   |-> resource.connection_type,
      access_method     |-> resource.access_method,
      public_access     |-> resource.public_access_enabled,
      security_score    |-> get_security_score(resource),
      private_endpoints |-> Len(resource.private_endpoints) ]

RECURSIVE SelectType(_, _)
SelectType(list, short) ==
    IF list = << >> THEN << >>
    ELSE (IF ShortType(Head(list).resource_type) = short
          THEN << FormatResource(Head(list)) >> ELSE << >>)
         \o SelectType(Tail(list), short)

\* _format_discovery_results (lines 548-572), without the security summary
_format_discovery_results(list) ==
    [ total_resources   |-> Len(list),
      resources_by_type |->
          [ short \in { ShortType(list[i].resource_type) : i \in 1..Len(list) } |->
              SelectType(list, short) ],
      dependency_graph  |->
          [ id \in { list[i].resource_id : i \in 1..Len(list) } |-> << >> ] ]

(***************************************************************************)
(* ResourceDiscovery.analyze() from the analysis loop on (lines 61-72),    *)
(* started from the resource lists discovery can have built                *)
(***************************************************************************)
MaxResources == 2

\* the _add_resource calls of a run, in the order the discovery paths make
\* them (defaults, compute, datastores, user connections)
CandidateRequests(hub, sub) ==
    << Request(SA1, StorageType, "default"),
       Request(KV1, KeyVaultType, "default"),
       Request(ACR1, RegistryType, "default"),
       Request(APPI1, InsightsType, "default"),
       Request(VNetOfSubnet(SubnetA), VNetType, "associated"),
       Request(DatastoreResourceId(sub, "sa1"), StorageType, "user-defined") >>
    \o (IF WantsUserConnections(hub)
        THEN << Request(ServiceResourceId(sub, [ scheme |-> "https",
                                                 host |-> << "cs1", "openai", "azure", "com" >> ]),
                        CognitiveType, "user-defined") >>
        ELSE << >>)

RECURSIVE Pick(_, _)
Pick(reqs, chosen) ==
    IF reqs = << >> THEN << >>
    ELSE (IF Len(reqs) \in chosen THEN << Head(reqs) >> ELSE << >>)
         \o Pick(Tail(reqs), chosen)

AnalysisInit ==
    /\ hub_type \in {"azure-ml", "azure-ai-foundry"}
    /\ subscription_id = "sub1"
    /\ \E chosen \in SUBSET (1..Len(CandidateRequests(hub_type, subscription_id))) :
          /\ Cardinality(chosen) =< MaxResources
          /\ requests = Pick(CandidateRequests(hub_type, subscription_id), chosen)
    /\ connected_resources = AddAll(<< >>, requests)
    /\ dpc = "analyze"
    /\ idx = 1
    /\ fetched = << >>
    /\ dret = NotReturned

\* one iteration of the loop of lines 62-63
AnalyzeResource ==
    /\ dpc = "analyze"
    /\ idx <= Len(connected_resources)
    /\ LET resource == connected_resources[idx]
       IN \E q \in (IF resource.resource_type \in AnalysedTypes
                    THEN DetailOutcomes(resource.resource_type) ELSE { NoQuery }) :
             /\ connected_resources' =
                   [ connected_resources EXCEPT ![idx] = _analyze_resource(resource, q) ]
             /\ fetched' = Append(fetched, q)
    /\ idx' = idx + 1
    /\ UNCHANGED <<hub_type, subscription_id, requests, dpc, dret, orchVars, scoreVars, extVars>>

\* lines 65-72
FinishDiscovery ==
    /\ dpc = "analyze"
    /\ idx = Len(connected_resources) + 1
    /\ dret' = Returned(AnalysisResult(TRUE, "Resource discovery completed successfully",
                                       _format_discovery_results(connected_resources), None))
    /\ dpc' = "done"
    /\ UNCHANGED <<hub_type, subscription_id, connected_resources, requests, idx, fetched,
                   orchVars, scoreVars, extVars>>

AnalysisNext ==
    \/ AnalyzeResource
    \/ FinishDiscovery

InitAnalysis == AnalysisInit /\ OrchIdle /\ ScoreIdle /\ ExtIdle
SpecAnalysis == InitAnalysis /\ [][AnalysisNext]_vars

\* a detail fetch succeeded when every query issued for the resource did
FetchSucceeded(q) == q.kind = "ok" /\ q.acl \in {"none", "ok"}
FetchFailed(q) ==
    \/ q.kind \in {"nonzero", "raise"}
    \/ q.kind = "ok" /\ q.acl \in {"nonzero", "raise"}

FormattedResources ==
    UNION { { dret.result.data.resources_by_type[short][k] :
                k \in DOMAIN dret.result.data.resources_by_type[short] } :
            short \in DOMAIN dret.result.data.resources_by_type }

\* C28: no step of a discovery run puts anything into firewall_rules (the
\* ACLs an analyser reads are kept in network_acls only), so the deduction
\* for having no firewall rules applies to every resource and every
\* security_score of the results is at most 90.
C28_NoFirewallRulesEver ==
    /\ \A i \in DOMAIN connected_resources :
          /\ connected_resources[i].firewall_rules = << >>
          /\ get_security_score(connected_resources[i]) <= 90
    /\ dpc = "done" =>
          \A entry \in FormattedResources : entry.security_score <= 90

C28_Witness ==
    /\ dpc = "done"
    /\ \E i \in DOMAIN connected_resources :
          /\ connected_resources[i].network_acls # "{}"
          /\ connected_resources[i].private_endpoints # << >>
          /\ ~connected_resources[i].public_access_enabled
          /\ connected_resources[i].firewall_rules = << >>
    /\ \E entry \in FormattedResources : entry.security_score = 90

\* C9 as claimed: after a successful detail fetch of a storage account, key
\* vault, container registry or cognitive services account, access_method
\* is 'private-endpoint' if the resource has private endpoints, else
\* 'service-endpoint' if public access is disabled, else 'public'; two
\* resources of different types with the same public-access flag and the
\* same private endpoints get the same access_method.
C9_AccessMethodRule ==
    /\ \A i \in 1..Len(fetched) :
          (connected_resources[i].resource_type \in AnalysedTypes
              /\ FetchSucceeded(fetched[i])) =>
             /\ connected_resources[i].access_method =
                   (IF connected_resources[i].private_endpoints # << >>
                    THEN "private-endpoint"
                    ELSE IF ~connected_resources[i].public_access_enabled
                    THEN "service-endpoint"
                    ELSE "public")
             /\ connected_resources[i].public_access_enabled = (fetched[i].pna # "Disabled")
             /\ Len(connected_resources[i].private_endpoints) = Len(fetched[i].pes.items)
    /\ \A i, j \in 1..Len(fetched) :
          (FetchSucceeded(fetched[i]) /\ FetchSucceeded(fetched[j])
              /\ connected_resources[i].public_access_enabled
                    = connected_resources[j].public_access_enabled
              /\ connected_resources[i].private_endpoints
                    = connected_resources[j].private_endpoints) =>
             connected_resources[i].access_method = connected_resources[j].access_method

\* C10 as claimed: when the detail fetch of a resource fails (non-zero exit,
\* timeout or unparsable output in any query issued for it, the second
\* key-vault query included), the resource stays in the result set with
\* exactly the field values it was constructed with, every other resource
\* is still analysed and the discovery stage returns success.
C10_FailedFetchKeepsDefaults ==
    /\ Len(connected_resources) = Len(requests)
    /\ \A i \in 1..Len(fetched) :
          FetchFailed(fetched[i]) =>
             connected_resources[i] =
                NewResource(connected_resources[i].resource_id,
                            connected_resources[i].resource_type,
                            connected_resources[i].connection_type)
    /\ dpc = "done" =>
          /\ Len(fetched) = Len(connected_resources)
          /\ dret.returned
          /\ dret.result.success
          /\ dret.result.data.total_resources = Len(requests)

(***************************************************************************)
(* get_security_score applied to the resources it can be handed            *)
(***************************************************************************)
MaxRules == 2

AccessMethods == {"unknown", "public", "service-endpoint", "private-endpoint"}

ScoredResources ==
    { [ NewResource(req.resource_id, req.resource_type, req.connection_type) EXCEPT
          !.public_access_enabled = p,
          !.access_method = a,
          !.private_endpoints = [ i \in 1..npe |-> [ name |-> i, state |-> "Approved" ] ],
          !.firewall_rules = [ i \in 1..nfw |-> [ rule |-> i ] ] ] :
      req \in { Request(SA1, StorageType, "default"), Request(KV1, KeyVaultType, "default") },
      p \in BOOLEAN, a \in AccessMethods, npe \in 0..MaxEndpoints, nfw \in 0..MaxRules }

ScoreInit ==
    /\ hub_type = "azure-ml"
    /\ score_in \in ScoredResources
    /\ score_out = -1

ComputeScore ==
    /\ score_out = -1
    /\ score_out' = get_security_score(score_in)
    /\ UNCHANGED <<hub_type, score_in, orchVars, discVars, extVars>>

ScoreNext == ComputeScore

InitScore == ScoreInit /\ OrchIdle /\ DiscIdle /\ ExtIdle
SpecScore == InitScore /\ [][ScoreNext]_vars

Deduct(condition, points) == IF condition THEN points ELSE 0

\* C8: get_security_score is 100 minus 30 if public access is enabled, minus
\* 20 if access_method is 'public', minus 10 if there are no private
\* endpoints, minus 10 if there are no firewall rules, clamped to [0, 100];
\* so at most 70 with public access enabled, 30 when all four deductions
\* apply, and 40 for a public resource with access method 'public', no
\* private endpoints and one firewall rule.
C8_SecurityScore ==
    score_out # -1 =>
       LET raw == 100 - Deduct(score_in.public_access_enabled, 30)
                      - Deduct(score_in.access_method = "public", 20)
                      - Deduct(Len(score_in.private_endpoints) = 0, 10)
                      - Deduct(Len(score_in.firewall_rules) = 0, 10)
       IN /\ score_out = (IF raw < 0 THEN 0 ELSE IF raw > 100 THEN 100 ELSE raw)
          /\ score_out \in 0..100
          /\ score_in.public_access_enabled => score_out <= 70
          /\ (score_in.public_access_enabled /\ score_in.access_method = "public"
                 /\ Len(score_in.private_endpoints) = 0
                 /\ Len(score_in.firewall_rules) = 0) => score_out = 30
          /\ (score_in.public_access_enabled /\ score_in.access_method = "public"
                 /\ Len(score_in.private_endpoints) = 0
                 /\ Len(score_in.firewall_rules) = 1) => score_out = 40

C8_Witness ==
    /\ score_out = 40
    /\ score_in.public_access_enabled
    /\ score_in.access_method = "public"
    /\ score_in.private_endpoints = << >>
    /\ Len(score_in.firewall_rules) = 1

(***************************************************************************)
(* NetworkAnalyzer (network_analyzer.py)                                   *)
(***************************************************************************)
\* NetworkConfiguration() as the constructor builds it (lines 7-18, 26)
NetworkConfiguration ==
    [ isolation_mode        |-> None,
      network_type          |-> "unknown",
      public_network_access |-> TRUE,
      private_endpoints     |-> << >>,
      outbound_rules        |-> << >> ]

\* truth value of a dict or list: it is not empty
Truthy(d) == DOMAIN d # {}

\* _analyze_network_type (lines 79-97)
_analyze_network_type_customer_first(config, info) ==
    LET managed_network == Get(info, "managed_network", << >>)
        c1 == IF Truthy(Get(info, "private_endpoint_connections", << >>))
              THEN [ config EXCEPT !.network_type = "customer" ]
              ELSE IF Truthy(managed_network)
              THEN [ config EXCEPT !.network_type   = "managed",
                                   !.isolation_mode = Get(managed_network, "isolation_mode", None) ]
              ELSE [ config EXCEPT !.network_type = "none" ]
    IN [ c1 EXCEPT !.public_network_access =
                       (Get(info, "public_network_access", "Enabled") = "Enabled") ]
_analyze_network_type(config, info) ==
    LET managed_network == Get(info, "managed_network", << >>)
        c1 == IF Truthy(managed_network)
              THEN [ config EXCEPT !.network_type   = "managed",
                                   !.isolation_mode = Get(managed_network, "isolation_mode", None) ]
              ELSE IF Truthy(Get(info, "private_endpoint_connections", << >>))
              THEN [ config EXCEPT !.network_type = "customer" ]
              ELSE [ config EXCEPT !.network_type = "none" ]
    IN [ c1 EXCEPT !.public_network_access =
                       (Get(info, "public_network_access", "Enabled") = "Enabled") ]

\* _parse_destination (lines 203-225) for fqdn and service_tag rules
_parse_destination(rule) ==
    LET rule_type == Lower(Get(rule, "type", ""))
    IN CASE rule_type = "fqdn" -> Get(rule, "destination", "")
         [] rule_type = "service_tag" ->
              LET dest == Get(rule, "destination", << >>)
              IN Get(dest, "service_tag", "") \o " (Ports: "
                    \o Get(dest, "port_ranges", "Any") \o ")"
         [] OTHER -> Get(rule, "destination", "")

\* _analyze_managed_network (lines 99-113)
RECURSIVE ManagedRules(_)
ManagedRules(outbound_rules) ==
    IF outbound_rules = << >> THEN << >>
    ELSE LET rule == Head(outbound_rules)
         IN << [ name        |-> Get(rule, "name", None),
                 type        |-> Get(rule, "type", None),
                 destination |-> _parse_destination(rule),
                 category    |-> Get(rule, "category", "user-defined"),
                 status      |-> Get(rule, "status", "Unknown") ] >>
            \o ManagedRules(Tail(outbound_rules))

_analyze_managed_network(config, info) ==
    LET managed_network == Get(info, "managed_network", << >>)
    IN [ config EXCEPT !.outbound_rules =
                           @ \o ManagedRules(Get(managed_network, "outbound_rules", << >>)) ]

\* _analyze_customer_network (lines 115-128)
RECURSIVE CustomerEndpoints(_)
CustomerEndpoints(pe_connections) ==
    IF pe_connections = << >> THEN << >>
    ELSE LET pe_conn == Head(pe_connections)
             private_endpoint == Get(pe_conn, "private_endpoint", << >>)
         IN (IF Truthy(private_endpoint)
             THEN << [ id                 |-> Get(private_endpoint, "id", None),
                       provisioning_state |-> Get(pe_conn, "provisioning_state", None),
                       connection_state   |->
                           Get(pe_conn, "private_link_service_connection_state", << >>) ] >>
             ELSE << >>)
            \o CustomerEndpoints(Tail(pe_connections))

_analyze_customer_network(config, info) ==
    [ config EXCEPT !.private_endpoints =
                        @ \o CustomerEndpoints(Get(info, "private_endpoint_connections", << >>)) ]

\* lines 146 and 152: workspace_pattern.lower() in service_id.lower(), for
\* the workspace named 'ws'
WsServiceId      == "/subscriptions/sub1/resourceGroups/rg1/providers/Microsoft.MachineLearningServices/workspaces/ws"
WsServiceIdUpper == "/SUBSCRIPTIONS/SUB1/RESOURCEGROUPS/RG1/PROVIDERS/MICROSOFT.MACHINELEARNINGSERVICES/WORKSPACES/WS"
Ws2ServiceId     == "/subscriptions/sub1/resourceGroups/rg1/providers/Microsoft.MachineLearningServices/workspaces/ws2"
OtherServiceId   == "/subscriptions/sub1/resourceGroups/rg1/providers/Microsoft.Storage/storageAccounts/sa1"

MatchesWorkspace(service_id) ==
    service_id \in { WsServiceId, WsServiceIdUpper, Ws2ServiceId }

\* line 162: any(pe['name'] == name for pe in private_endpoints); the
\* entries _analyze_customer_network added have no 'name' key
RECURSIVE AnyNamed(_, _)
AnyNamed(list, name) ==
    IF list = << >> THEN "False"
    ELSE IF "name" \notin DOMAIN Head(list) THEN "KeyError"
    ELSE IF Head(list).name = name THEN "True"
    ELSE AnyNamed(Tail(list), name)

\* the inner loop of _analyze_private_endpoints (lines 150-163)
RECURSIVE AddConnections(_, _, _)
AddConnections(st, endpoint, connections) ==
    IF st.raised \/ connections = << >> THEN st
    ELSE
      LET conn == Head(connections)
          service_id == Get(conn, "privateLinkServiceId", "")
      IN IF ~MatchesWorkspace(service_id)
         THEN AddConnections(st, endpoint, Tail(connections))
         ELSE
           LET endpoint_info ==
                   [ name               |-> Get(endpoint, "name", None),
                     location           |-> Get(endpoint, "location", None),
                     provisioning_state |-> Get(endpoint, "provisioningState", None),
                     connection_state   |->
                         Get(conn, "privateLinkServiceConnectionState", << >>) ]
               dup == AnyNamed(st.list, endpoint_info.name)
           IN CASE dup = "KeyError" -> [ st EXCEPT !.raised = TRUE ]
                [] dup = "True"     -> AddConnections(st, endpoint, Tail(connections))
                [] OTHER            ->
                     AddConnections([ st EXCEPT !.list = Append(@, endpoint_info) ],
                                    endpoint, Tail(connections))

\* the outer loop of _analyze_private_endpoints (lines 148-163)
RECURSIVE AddEndpoints(_, _)
AddEndpoints(st, all_endpoints) ==
    IF st.raised \/ all_endpoints = << >> THEN st
    ELSE AddEndpoints(AddConnections(st, Head(all_endpoints),
                                     Get(Head(all_endpoints),
                                         "privateLinkServiceConnections", << >>)),
                      Tail(all_endpoints))

\* _analyze_private_endpoints (lines 130-166): a non-zero exit, and an
\* exception (timeout, unparsable output, KeyError of line 162) handled at
\* line 165, leave what has been collected so far
_analyze_private_endpoints(config, q) ==
    IF q.kind # "ok" THEN config
    ELSE [ config EXCEPT !.private_endpoints =
               AddEndpoints([ list |-> @, raised |-> FALSE ], q.list).list ]

\* the loop of _analyze_outbound_rules (lines 187-198)
RECURSIVE AddRules(_, _)
AddRules(list, rules) ==
    IF rules = << >> THEN list
    ELSE
      LET rule == Head(rules)
          rule_info == [ name        |-> Get(rule, "name", None),
                         type        |-> Get(rule, "type", None),
                         destination |-> _parse_destination(rule),
                         status      |-> Get(rule, "status", None),
                         category    |-> Get(rule, "category", "user-defined") ]
      IN IF \E i \in 1..Len(list) : list[i].name = rule_info.name
         THEN AddRules(list, Tail(rules))
         ELSE AddRules(Append(list, rule_info), Tail(rules))

\* _analyze_outbound_rules (lines 168-201)
_analyze_outbound_rules(config, q) ==
    IF config.network_type # "managed" THEN config
    ELSE IF q.kind # "ok" THEN config
    ELSE [ config EXCEPT !.outbound_rules = AddRules(@, q.list) ]

\* _assess_security_level (lines 286-296)
_assess_security_level_by_type(config) ==
    IF ~config.public_network_access
    THEN IF config.isolation_mode = "allow_only_approved_outbound"
         THEN "High - Private with approved outbound only"
         ELSE IF config.network_type = "managed"
         THEN "Medium - Private with internet outbound"
         ELSE "Medium - Private access only"
    ELSE "Low - Public access enabled"
_assess_security_level(config) ==
    IF ~config.public_network_access
    THEN IF config.isolation_mode = "allow_only_approved_outbound"
         THEN "High - Private with approved outbound only"
         ELSE IF config.isolation_mode = "allow_internet_outbound"
         THEN "Medium - Private with internet outbound"
         ELSE "Medium - Private access only"
    ELSE "Low - Public access enabled"

\* _format_network_data (lines 227-244) with the summary of
\* generate_network_summary (lines 271-284); the categorised rules, the
\* connectivity counts, key_findings and recommendations are left out
_format_network_data(config) ==
    [ network_type          |-> config.network_type,
      isolation_mode        |-> config.isolation_mode,
      public_network_access |-> config.public_network_access,
      private_endpoints     |-> [ count     |-> Len(config.private_endpoints),
                                  endpoints |-> config.private_endpoints ],
      outbound_rules        |-> [ count |-> Len(config.outbound_rules) ],
      summary               |-> [ configuration_type |-> config.network_type,
                                  security_level     |-> _assess_security_level(config) ] ]

\* lines 55-61: every exception of analyze() becomes a failure envelope
NetworkFailure_success(e) ==
    AnalysisResult(TRUE, "Network analysis failed", None, e)
NetworkFailure(e) ==
    AnalysisResult(FALSE, "Network analysis failed", None, e)

(***************************************************************************)
(* What the queries of the network stage can return                        *)
(***************************************************************************)
IsolationModes == {"allow_only_approved_outbound", "allow_internet_outbound", "disabled"}

FqdnRule == [ name |-> "r1", type |-> "fqdn", destination |-> "pypi.org",
              category |-> "user-defined", status |-> "Active" ]
TagRule  == [ name |-> "r2", type |-> "service_tag",
              destination |-> [ service_tag |-> "AzureMonitor", port_ranges |-> "443" ] ]
RuleItems == { FqdnRule, TagRule }

ManagedNetworks ==
    { << >> }
    \cup { [ isolation_mode |-> m ] : m \in IsolationModes }
    \cup { [ outbound_rules |-> << FqdnRule >> ],
           [ isolation_mode |-> "allow_only_approved_outbound",
             outbound_rules |-> << FqdnRule >> ] }

PEConnectionItem ==
    [ private_endpoint   |-> [ id |-> "pe-id-1" ],
      provisioning_state |-> "Succeeded" ]
DescriptorPELists == { << >>, << PEConnectionItem >>, << [ provisioning_state |-> "Succeeded" ] >> }

OptionalKey(key, values) == { << >> } \cup { [ k \in {key} |-> v ] : v \in values }

\* the documents 'az ml workspace show' can print
Descriptors ==
    { m @@ p @@ a :
        m \in OptionalKey("managed_network", ManagedNetworks),
        p \in OptionalKey("private_endpoint_connections", DescriptorPELists),
        a \in OptionalKey("public_network_access", {"Enabled", "Disabled"}) }

QueryFailures == { [ kind |-> "nonzero" ], [ kind |-> "raise" ] }

WorkspaceShowOutcomes ==
    QueryFailures \cup { [ kind |-> "ok", info |-> d ] : d \in Descriptors }

EndpointItems ==
    { [ name |-> "pe-ws", location |-> "eastus", provisioningState |-> "Succeeded",
        privateLinkServiceConnections |-> << [ privateLinkServiceId |-> WsServiceId ] >> ],
      [ name |-> "pe-ws", location |-> "westus", provisioningState |-> "Succeeded",
        privateLinkServiceConnections |-> << [ privateLinkServiceId |-> WsServiceIdUpper ] >> ],
      [ name |-> "pe-sa", location |-> "eastus", provisioningState |-> "Succeeded",
        privateLinkServiceConnections |-> << [ privateLinkServiceId |-> OtherServiceId ] >> ] }

EndpointListOutcomes ==
    QueryFailures
    \cup { [ kind |-> "ok", list |-> l ] : l \in SeqsUpTo(EndpointItems, MaxEndpoints) }

RuleListOutcomes ==
    QueryFailures
    \cup { [ kind |-> "ok", list |-> l ] : l \in SeqsUpTo(RuleItems, MaxRules) }

(***************************************************************************)
(* NetworkAnalyzer.analyze() (lines 28-61)                                 *)
(***************************************************************************)
NetInit ==
    /\ hub_type \in {"azure-ml", "ai-foundry"}
    /\ net_workspace_info = << >>
    /\ network_config = NetworkConfiguration
    /\ npc = "workspace"
    /\ nqueries = << >>
    /\ nret = NotReturned

Asked(query, q) ==
    Append(nqueries, [ query |-> query, kind |-> q.kind, list |-> Get(q, "list", << >>) ])

\* line 32, _get_workspace_info (lines 63-77): a non-zero exit raises
\* RuntimeError, a timeout or unparsable output raises as well
GetWorkspaceInfo ==
    /\ npc = "workspace"
    /\ \E q \in WorkspaceShowOutcomes :
          /\ nqueries' = Asked("workspace_show", q)
          /\ IF q.kind = "ok"
             THEN /\ net_workspace_info' = q.info
                  /\ npc' = "classify"
                  /\ nret' = nret
             ELSE /\ nret' = Returned(NetworkFailure(IF q.kind = "nonzero"
                                                     THEN "Failed to get workspace info"
                                                     ELSE "TimeoutExpired or JSONDecodeError"))
                  /\ npc' = "done"
                  /\ net_workspace_info' = net_workspace_info
    /\ UNCHANGED <<hub_type, network_config, orchVars, discVars, scoreVars, moreVars>>

\* lines 35-41
ClassifyNetwork ==
    /\ npc = "classify"
    /\ LET c1 == _analyze_network_type(network_config, net_workspace_info)
       IN network_config' =
             CASE c1.network_type = "managed"  -> _analyze_managed_network(c1, net_workspace_info)
               [] c1.network_type = "customer" -> _analyze_customer_network(c1, net_workspace_info)
               [] OTHER -> c1
    /\ npc' = "endpoints"
    /\ UNCHANGED <<hub_type, net_workspace_info, nqueries, nret, orchVars, discVars, scoreVars, moreVars>>

\* line 44
AnalyzePrivateEndpoints ==
    /\ npc = "endpoints"
    /\ \E q \in EndpointListOutcomes :
          /\ nqueries' = Asked("private_endpoint_list", q)
          /\ network_config' = _analyze_private_endpoints(network_config, q)
    /\ npc' = "rules"
    /\ UNCHANGED <<hub_type, net_workspace_info, nret, orchVars, discVars, scoreVars, moreVars>>

\* lines 47-53: the outbound-rule query is issued for a managed network only
AnalyzeOutboundRules ==
    /\ npc = "rules"
    /\ IF network_config.network_type = "managed"
       THEN \E q \in RuleListOutcomes :
               /\ nqueries' = Asked("outbound_rule_list", q)
               /\ network_config' = _analyze_outbound_rules(network_config, q)
       ELSE /\ nqueries' = nqueries
            /\ network_config' = _analyze_outbound_rules(network_config, [ kind |-> "none" ])
    /\ nret' = Returned(AnalysisResult(TRUE, "Network analysis completed successfully",
                                       _format_network_data(network_config'), None))
    /\ npc' = "done"
    /\ UNCHANGED <<hub_type, net_workspace_info, orchVars, discVars, scoreVars, moreVars>>

NetNext ==
    \/ GetWorkspaceInfo
    \/ ClassifyNetwork
    \/ AnalyzePrivateEndpoints
    \/ AnalyzeOutboundRules

InitNetwork == NetInit /\ OrchIdle /\ DiscIdle /\ ScoreIdle /\ MoreIdle
SpecNetwork == InitNetwork /\ [][NetNext]_vars

(***************************************************************************)
(* Properties of NetworkAnalyzer.analyze() (checked under SpecNetwork)     *)
(***************************************************************************)
Classified == npc \in {"endpoints", "rules", "done"} /\ nqueries[1].kind = "ok"

QueryFailed(query) ==
    \E i \in 1..Len(nqueries) : nqueries[i].query = query /\ nqueries[i].kind # "ok"

\* C11: the network type is 'managed' if the descriptor's managed_network
\* block is non-empty, else 'customer' if its private_endpoint_connections
\* are non-empty, else 'none'; the (network_type, isolation_mode) pair is a
\* function of the descriptor alone, and it is the pair the stage returns.
C11_ClassificationRule ==
    Classified =>
       LET has_managed == /\ "managed_network" \in DOMAIN net_workspace_info
                          /\ net_workspace_info["managed_network"] # << >>
           has_pe == /\ "private_endpoint_connections" \in DOMAIN net_workspace_info
                     /\ Len(net_workspace_info["private_endpoint_connections"]) > 0
           network_type == IF has_managed THEN "managed"
                           ELSE IF has_pe THEN "customer" ELSE "none"
           isolation_mode ==
               IF has_managed
                  /\ "isolation_mode" \in DOMAIN net_workspace_info["managed_network"]
               THEN net_workspace_info["managed_network"]["isolation_mode"]
               ELSE None
       IN /\ network_config.network_type = network_type
          /\ network_config.isolation_mode = isolation_mode
          /\ npc = "done" =>
                /\ nret.result.success
                /\ nret.result.data.network_type = network_type
                /\ nret.result.data.isolation_mode = isolation_mode

C11_Witness ==
    /\ npc = "done"
    /\ "managed_network" \in DOMAIN net_workspace_info
    /\ net_workspace_info["managed_network"] = << >>
    /\ "private_endpoint_connections" \in DOMAIN net_workspace_info
    /\ Len(net_workspace_info["private_endpoint_connections"]) > 0
    /\ nret.result.data.network_type = "customer"

SecurityLevels ==
    { "High - Private with approved outbound only",
      "Medium - Private with internet outbound",
      "Medium - Private access only",
      "Low - Public access enabled" }

\* C12 as claimed: security_level is one of four tiers; 'Low' exactly when
\* public access is enabled; with public access disabled 'High' exactly for
\* allow_only_approved_outbound, 'Medium - private with internet outbound'
\* exactly for allow_internet_outbound, and 'Medium - private only' only
\* for a workspace with no managed network.
C12_SecurityLevelTiers ==
    (npc = "done" /\ nret.result.success) =>
       LET data  == nret.result.data
           level == data.summary.security_level
       IN /\ level \in SecurityLevels
          /\ (level = "Low - Public access enabled") <=> data.public_network_access
          /\ ~data.public_network_access =>
                /\ (level = "High - Private with approved outbound only")
                      <=> (data.isolation_mode = "allow_only_approved_outbound")
                /\ (level = "Medium - Private with internet outbound")
                      <=> (data.isolation_mode = "allow_internet_outbound")
          /\ (level = "Medium - Private access only") => data.network_type # "managed"

\* C12 amended: as above, but 'Medium - Private access only' is the tier of
\* every workspace with public access disabled whose isolation mode is
\* neither allow_only_approved_outbound nor allow_internet_outbound, with
\* or without a managed network; a managed network with
\* allow_only_approved_outbound and public access 'Disabled' is 'managed'
\* with a level starting with 'High'.
C12_SecurityLevelByIsolation ==
    (npc = "done" /\ nret.result.success) =>
       LET data  == nret.result.data
           level == data.summary.security_level
       IN /\ level \in SecurityLevels
          /\ (level = "Low - Public access enabled") <=> data.public_network_access
          /\ ~data.public_network_access =>
                /\ (level = "High - Private with approved outbound only")
                      <=> (data.isolation_mode = "allow_only_approved_outbound")
                /\ (level = "Medium - Private with internet outbound")
                      <=> (data.isolation_mode = "allow_internet_outbound")
                /\ (level = "Medium - Private access only")
                      <=> (data.isolation_mode \notin { "allow_only_approved_outbound",
                                                        "allow_internet_outbound" })
          /\ (Get(Get(net_workspace_info, "managed_network", << >>), "isolation_mode", None)
                 = "allow_only_approved_outbound"
              /\ Get(net_workspace_info, "public_network_access", "Enabled") = "Disabled") =>
                /\ data.network_type = "managed"
                /\ level = "High - Private with approved outbound only"

C12_Witness ==
    /\ npc = "done"
    /\ nret.result.success
    /\ nret.result.data.network_type = "managed"
    /\ nret.result.data.isolation_mode = "disabled"
    /\ nret.result.data.summary.security_level = "Medium - Private access only"

ListedEndpoints ==
    nqueries[CHOOSE i \in 1..Len(nqueries) : nqueries[i].query = "private_endpoint_list"].list

ListedForWorkspace(endpoint) ==
    \E k \in 1..Len(endpoint.privateLinkServiceConnections) :
        MatchesWorkspace(endpoint.privateLinkServiceConnections[k].privateLinkServiceId)

CapturedByName(name) ==
    { i \in 1..Len(network_config.private_endpoints) :
        /\ "name" \in DOMAIN network_config.private_endpoints[i]
        /\ network_config.private_endpoints[i].name = name }

\* C23: for a customer topology whose endpoint query succeeded,
\* private_endpoints holds the connections of the descriptor followed by the
\* listed endpoints that are connected to the workspace: every such listed
\* endpoint is there under its name (none is lost) and no name is there
\* twice.
C23_ListedEndpointsKept ==
    (/\ npc \in {"rules", "done"}
     /\ network_config.network_type = "customer"
     /\ ~QueryFailed("private_endpoint_list")) =>
        /\ \A j \in 1..Len(ListedEndpoints) :
              ListedForWorkspace(ListedEndpoints[j]) =>
                  CapturedByName(ListedEndpoints[j].name) # {}
        /\ \A j \in 1..Len(ListedEndpoints) :
              Cardinality(CapturedByName(ListedEndpoints[j].name)) <= 1
        /\ LET descriptor == CustomerEndpoints(Get(net_workspace_info,
                                                   "private_endpoint_connections", << >>))
           IN SubSeq(network_config.private_endpoints, 1, Len(descriptor)) = descriptor

(***************************************************************************)
(* VNetAnalyzer._analyze_nsg_rules (vnet_analyzer.py lines 257-298)        *)
(***************************************************************************)
MaxNsgRules == 2

\* one pass of the loop over the rules (lines 269-296)
AnalyzeRule_any_direction(analysis, rule) ==
    LET access == Lower(rule.access)
        direction == Lower(rule.direction)
        counted == [ analysis EXCEPT
            !.allow_rules    = IF access = "allow" THEN @ + 1 ELSE @,
            !.deny_rules     = IF access # "allow" /\ access = "deny" THEN @ + 1 ELSE @,
            !.inbound_rules  = IF direction = "inbound" THEN @ + 1 ELSE @,
            !.outbound_rules = IF direction # "inbound" /\ direction = "outbound"
                               THEN @ + 1 ELSE @ ]
    IN  IF /\ access = "allow"
           /\ rule.sourceAddressPrefix \in {"*", "0.0.0.0/0", "Internet"}
        THEN [ counted EXCEPT
                 !.high_risk_rules = Append(@, [ name |-> rule.name,
                                                 risk |-> "Open to Internet",
                                                 port |-> rule.destinationPortRange ]),
                 !.open_ports = IF rule.destinationPortRange # "*"
                                THEN Append(@, rule.destinationPortRange) ELSE @ ]
        ELSE counted
AnalyzeRule(analysis, rule) ==
    LET access == Lower(rule.access)
        direction == Lower(rule.direction)
        counted == [ analysis EXCEPT
            !.allow_rules    = IF access = "allow" THEN @ + 1 ELSE @,
            !.deny_rules     = IF access # "allow" /\ access = "deny" THEN @ + 1 ELSE @,
            !.inbound_rules  = IF direction = "inbound" THEN @ + 1 ELSE @,
            !.outbound_rules = IF direction # "inbound" /\ direction = "outbound"
                               THEN @ + 1 ELSE @ ]
    IN  IF /\ access = "allow"
           /\ rule.sourceAddressPrefix \in {"*", "0.0.0.0/0", "Internet"}
           /\ direction = "inbound"
        THEN [ counted EXCEPT
                 !.high_risk_rules = Append(@, [ name |-> rule.name,
                                                 risk |-> "Open to Internet",
                                                 port |-> rule.destinationPortRange ]),
                 !.open_ports = IF rule.destinationPortRange # "*"
                                THEN Append(@, rule.destinationPortRange) ELSE @ ]
        ELSE counted

RECURSIVE AnalyzeRules(_, _)
AnalyzeRules(analysis, rules) ==
    IF rules = << >> THEN analysis
    ELSE AnalyzeRules(AnalyzeRule(analysis, Head(rules)), Tail(rules))

_analyze_nsg_rules(rules) ==
    AnalyzeRules([ total_rules     |-> Len(rules),
                   allow_rules     |-> 0,
                   deny_rules      |-> 0,
                   inbound_rules   |-> 0,
                   outbound_rules  |-> 0,
                   high_risk_rules |-> << >>,
                   open_ports      |-> << >> ],
                 rules)

\* securityRules as `az network nsg show` prints them: every rule has the
\* keys below; sourceAddressPrefix and destinationPortRange are null when
\* the rule uses the plural sourceAddressPrefixes / destinationPortRanges.
\* The rule at position i of the list is named i.
NsgRuleLists ==
    UNION { [ 1..n -> [ access : {"Allow", "Deny"},
                        direction : {"Inbound", "Outbound"},
                        sourceAddressPrefix :
                            {"*", "0.0.0.0/0", "Internet", "VirtualNetwork", None},
                        destinationPortRange : {"443", "*", None} ] ]
            : n \in 0..MaxNsgRules }
Named(rules) ==
    [ i \in DOMAIN rules |->
        [ name |-> i, access |-> rules[i].access, direction |-> rules[i].direction,
          sourceAddressPrefix |-> rules[i].sourceAddressPrefix,
          destinationPortRange |-> rules[i].destinationPortRange ] ]

NsgInit ==
    /\ hub_type \in HubTypes
    /\ nsg_rules \in { Named(rules) : rules \in NsgRuleLists }
    /\ rules_summary = << >>

AnalyzeNsgRules ==
    /\ rules_summary = << >>
    /\ rules_summary' = _analyze_nsg_rules(nsg_rules)
    /\ UNCHANGED <<baseVars, nsg_rules, vnetVars, cmpVars, recVars, cliVars, repVars>>

NsgNext == AnalyzeNsgRules
InitNsg == NsgInit /\ BaseIdle /\ VNetIdle /\ CmpIdle /\ RecIdle /\ LateIdle
SpecNsg == InitNsg /\ [][NsgNext]_vars

(***************************************************************************)
(* Properties of _analyze_nsg_rules (checked under SpecNsg)                *)
(***************************************************************************)
OpenToInternet(rule) ==
    /\ rule.access \in {"Allow", "allow"}
    /\ rule.direction \in {"Inbound", "inbound"}
    /\ rule.sourceAddressPrefix \in {"*", "0.0.0.0/0", "Internet"}

\* C14: a security rule is listed in high_risk_rules if and only if its
\* access is allow, its direction is inbound and its source address prefix
\* is one of '*', '0.0.0.0/0', 'Internet'; it is listed once, and the entry
\* carries the rule's destinationPortRange.
C14_HighRiskRule ==
    rules_summary # << >> =>
        LET listed == rules_summary.high_risk_rules
        IN  /\ \A i \in DOMAIN nsg_rules :
                OpenToInternet(nsg_rules[i])
                    <=> (\E k \in DOMAIN listed : listed[k].name = nsg_rules[i].name)
            /\ \A k \in DOMAIN listed :
                /\ listed[k].name \in DOMAIN nsg_rules
                /\ listed[k].port = nsg_rules[listed[k].name].destinationPortRange
                /\ \A j \in DOMAIN listed : listed[j].name = listed[k].name => j = k

C14_Witness ==
    /\ rules_summary # << >>
    /\ Len(nsg_rules) = 2
    /\ Len(rules_summary.high_risk_rules) = 1
    /\ rules_summary.high_risk_rules[1].port = "443"
    /\ \E i \in DOMAIN nsg_rules :
          /\ nsg_rules[i].access = "Allow"
          /\ nsg_rules[i].direction = "Outbound"
          /\ nsg_rules[i].sourceAddressPrefix = "*"

(***************************************************************************)
(* VNetAnalyzer.analyze_workspace_vnet (vnet_analyzer.py lines 14-55)      *)
(*                                                                         *)
(* Every az query of the run either hands over the JSON document of the    *)
(* resource or fails (non-zero exit, timeout, unparsable output); the      *)
(* getters turn a failure into None, written << >> here.                   *)
(***************************************************************************)
MaxPEConnections == 2

PE1  == ArmId("sub1", "rg-net", "Microsoft.Network", "privateEndpoints", "pe1")
PE2  == ArmId("sub1", "rg-net", "Microsoft.Network", "privateEndpoints", "pe2")
NSG1 == ArmId("sub1", "rg-net", "Microsoft.Network", "networkSecurityGroups", "nsg1")
RT1  == ArmId("sub1", "rg-net", "Microsoft.Network", "routeTables", "rt1")

\* `az network vnet subnet show` for a subnet of the world
SubnetData(world, subnet_id) ==
    [ id                   |-> subnet_id,
      networkSecurityGroup |-> IF subnet_id = SubnetA THEN world.nsgA ELSE NSG1,
      routeTable           |-> IF subnet_id = SubnetA THEN world.rtA ELSE RT1,
      serviceEndpoints     |-> world.serviceEndpoints ]

\* securityRules of every NSG of the world
WorldRules ==
    << [ name |-> 1, access |-> "Allow", direction |-> "Inbound",
         sourceAddressPrefix |-> "*", destinationPortRange |-> "443" ] >>

_get_subnet_info(world, subnet_id, ok) ==
    IF Len(subnet_id) >= 11 /\ ok
    THEN LET subnet_data == SubnetData(world, subnet_id)
         IN [ id                     |-> subnet_data.id,
              name                   |-> subnet_id[11],
              resource_group         |-> subnet_id[5],
              vnet_name              |-> subnet_id[9],
              network_security_group |-> subnet_data.networkSecurityGroup,
              route_table            |-> subnet_data.routeTable,
              service_endpoints      |-> subnet_data.serviceEndpoints ]
    ELSE << >>

_get_vnet_details(subnet_id, ok) ==
    IF Len(subnet_id) >= 9 /\ ok
    THEN [ id             |-> VNetOfSubnet(subnet_id),
           name           |-> subnet_id[9],
           resource_group |-> subnet_id[5],
           dns_servers    |-> << >> ]
    ELSE << >>

_get_nsg_details(nsg_id, ok) ==
    IF Len(nsg_id) >= 9 /\ ok
    THEN [ id             |-> nsg_id,
           name           |-> nsg_id[9],
           resource_group |-> nsg_id[5],
           rules_summary  |-> _analyze_nsg_rules(WorldRules) ]
    ELSE << >>

_get_route_table_details(rt_id, ok) ==
    IF Len(rt_id) >= 9 /\ ok
    THEN [ id             |-> rt_id,
           name           |-> rt_id[9],
           resource_group |-> rt_id[5],
           routes         |-> << >> ]
    ELSE << >>

\* _extract_subnet_ids (lines 57-75): the connections whose private endpoint
\* is asked for, and the set of subnet ids the answers give
AskedConnections(workspace_info) ==
    LET pe_connections == Get(workspace_info, "private_endpoint_connections", << >>)
    IN  { i \in DOMAIN pe_connections : Len(pe_connections[i].private_endpoint.id) >= 9 }
_extract_subnet_ids(workspace_info, pe_details) ==
    { pe_details[i].subnet.id :
        i \in { j \in AskedConnections(workspace_info) :
                  pe_details[j] # << >> /\ pe_details[j].subnet.id # NoId } }

\* the loop of analyze_workspace_vnet over subnet_ids (lines 29-37; info is the local vnet_info)
RECURSIVE CollectSubnets_stop_at_failure(_, _, _, _, _)
CollectSubnets_stop_at_failure(info, ids, world, subnet_ok, vnet_ok) ==
    IF ids = << >> THEN info
    ELSE LET subnet_info == _get_subnet_info(world, Head(ids), subnet_ok[Head(ids)])
             vnet_details == _get_vnet_details(Head(ids), vnet_ok[Head(ids)])
             with_subnet == [ info EXCEPT !.subnets = Append(@, subnet_info) ]
         IN  IF subnet_info # << >>
             THEN CollectSubnets_stop_at_failure(
                      IF /\ vnet_details # << >>
                         /\ ~ \E i \in DOMAIN with_subnet.vnets :
                                with_subnet.vnets[i].id = vnet_details.id
                      THEN [ with_subnet EXCEPT !.vnets = Append(@, vnet_details) ]
                      ELSE with_subnet,
                      Tail(ids), world, subnet_ok, vnet_ok)
             ELSE info
RECURSIVE CollectSubnets(_, _, _, _, _)
CollectSubnets(info, ids, world, subnet_ok, vnet_ok) ==
    IF ids = << >> THEN info
    ELSE LET subnet_info == _get_subnet_info(world, Head(ids), subnet_ok[Head(ids)])
             vnet_details == _get_vnet_details(Head(ids), vnet_ok[Head(ids)])
             with_subnet == [ info EXCEPT !.subnets = Append(@, subnet_info) ]
         IN  IF subnet_info # << >>
             THEN CollectSubnets(
                      IF /\ vnet_details # << >>
                         /\ ~ \E i \in DOMAIN with_subnet.vnets :
                                with_subnet.vnets[i].id = vnet_details.id
                      THEN [ with_subnet EXCEPT !.vnets = Append(@, vnet_details) ]
                      ELSE with_subnet,
                      Tail(ids), world, subnet_ok, vnet_ok)
             ELSE CollectSubnets(info, Tail(ids), world, subnet_ok, vnet_ok)

\* analyze_network_security_groups (lines 180-201); st holds its locals nsgs
\* and processed_nsgs and the ids _get_nsg_details was called with, in call
\* order
RECURSIVE analyze_network_security_groups_retry_failed(_, _, _, _, _)
analyze_network_security_groups_retry_failed(ids, st, world, subnet_ok, nsg_ok) ==
    IF ids = << >> THEN st
    ELSE LET subnet_info == _get_subnet_info(world, Head(ids), subnet_ok[Head(ids)])
         IN  IF subnet_info # << >> /\ subnet_info.network_security_group # NoId
                /\ subnet_info.network_security_group \notin st.processed_nsgs
             THEN LET nsg_id == subnet_info.network_security_group
                      nsg_details == _get_nsg_details(nsg_id, nsg_ok[nsg_id])
                  IN analyze_network_security_groups_retry_failed(
                         Tail(ids),
                         [ nsgs |-> IF nsg_details # << >> THEN Append(st.nsgs, nsg_details)
                                                           ELSE st.nsgs,
                           processed_nsgs |-> IF nsg_details # << >>
                                              THEN st.processed_nsgs \cup {nsg_id}
                                              ELSE st.processed_nsgs,
                           asked |-> Append(st.asked, nsg_id) ],
                         world, subnet_ok, nsg_ok)
             ELSE analyze_network_security_groups_retry_failed(
                         Tail(ids), st, world, subnet_ok, nsg_ok)

RECURSIVE analyze_network_security_groups(_, _, _, _, _)
analyze_network_security_groups(ids, st, world, subnet_ok, nsg_ok) ==
    IF ids = << >> THEN st
    ELSE LET subnet_info == _get_subnet_info(world, Head(ids), subnet_ok[Head(ids)])
         IN  IF subnet_info # << >> /\ subnet_info.network_security_group # NoId
                /\ subnet_info.network_security_group \notin st.processed_nsgs
             THEN LET nsg_id == subnet_info.network_security_group
                      nsg_details == _get_nsg_details(nsg_id, nsg_ok[nsg_id])
                  IN analyze_network_security_groups(
                         Tail(ids),
                         [ nsgs |-> IF nsg_details # << >> THEN Append(st.nsgs, nsg_details)
                                                           ELSE st.nsgs,
                           processed_nsgs |-> st.processed_nsgs \cup {nsg_id},
                           asked |-> Append(st.asked, nsg_id) ],
                         world, subnet_ok, nsg_ok)
             ELSE analyze_network_security_groups(
                         Tail(ids), st, world, subnet_ok, nsg_ok)

\* _analyze_route_tables (lines 300-321); st holds its locals route_tables
\* and processed_rts and the ids _get_route_table_details was called with
RECURSIVE _analyze_route_tables(_, _, _, _, _)
_analyze_route_tables(ids, st, world, subnet_ok, rt_ok) ==
    IF ids = << >> THEN st
    ELSE LET subnet_info == _get_subnet_info(world, Head(ids), subnet_ok[Head(ids)])
         IN  IF subnet_info # << >> /\ subnet_info.route_table # NoId
                /\ subnet_info.route_table \notin st.processed_rts
             THEN LET rt_id == subnet_info.route_table
                      rt_details == _get_route_table_details(rt_id, rt_ok[rt_id])
                  IN _analyze_route_tables(
                         Tail(ids),
                         [ route_tables |-> IF rt_details # << >>
                                            THEN Append(st.route_tables, rt_details)
                                            ELSE st.route_tables,
                           processed_rts |-> st.processed_rts \cup {rt_id},
                           asked |-> Append(st.asked, rt_id) ],
                         world, subnet_ok, rt_ok)
             ELSE _analyze_route_tables(Tail(ids), st, world, subnet_ok, rt_ok)

\* _generate_vnet_summary (lines 372-384).  _generate_security_insights takes
\* len() of every subnet's service_endpoints (line 407), which is a TypeError
\* when the subnet document carried "serviceEndpoints": null; the handler of
\* analyze_workspace_vnet (lines 48-53) turns that into the failed summary.
_generate_vnet_summary(info) ==
    IF \E i \in DOMAIN info.subnets : info.subnets[i].service_endpoints.null
    THEN [ error  |-> "Analysis failed: object of type 'NoneType' has no len()",
           status |-> "failed" ]
    ELSE [ status                |-> "completed",
           vnets_analyzed        |-> Len(info.vnets),
           subnets_analyzed      |-> Len(info.subnets),
           nsgs_analyzed         |-> Len(info.network_security_groups),
           route_tables_analyzed |-> Len(info.route_tables) ]

\* list(set): the subnet ids in some order
Orders(S) ==
    { order \in [ 1..Cardinality(S) -> S ] :
        \A i, j \in DOMAIN order : order[i] = order[j] => i = j }

Fetch(stage, id, ok) == [ stage |-> stage, id |-> id, ok |-> ok ]

VNetInit ==
    /\ hub_type = "azure-ml"
    /\ vnet_workspace_info \in
          { [ private_endpoint_connections |-> c ] :
              c \in SeqsUpTo({ [ private_endpoint |-> [ id |-> p ] ] : p \in {PE1, PE2, NoId} },
                             MaxPEConnections) }
    /\ vnet_world \in [ nsgA : {NoId, NSG1}, rtA : {NoId, RT1},
                        serviceEndpoints : { JsonNull, JsonArray(<< >>) } ]
    /\ vpc = "extract"
    /\ subnet_ids = << >>
    /\ vnet_out = [ vnets |-> << >>, subnets |-> << >>, network_security_groups |-> << >>,
                     route_tables |-> << >>, analysis_summary |-> << >> ]
    /\ vfetched = {}
    /\ vasked = << >>

\* line 26
ExtractSubnetIds ==
    /\ vpc = "extract"
    /\ \E pe_details \in [ AskedConnections(vnet_workspace_info) ->
                             { << >> } \cup { [ subnet |-> [ id |-> s ] ] :
                                               s \in {SubnetA, SubnetB, NoId} } ] :
          /\ subnet_ids' \in Orders(_extract_subnet_ids(vnet_workspace_info, pe_details))
          /\ vfetched' = vfetched \cup
                { Fetch("private-endpoint",
                        vnet_workspace_info.private_endpoint_connections[i].private_endpoint.id,
                        pe_details[i] # << >>) : i \in AskedConnections(vnet_workspace_info) }
    /\ vpc' = "subnets"
    /\ UNCHANGED <<baseVars, nsgVars, cmpVars, recVars, cliVars, repVars, vnet_workspace_info, vnet_world, vnet_out, vasked>>

Ids(order) == { order[i] : i \in DOMAIN order }

\* lines 29-37
CollectSubnetsAndVNets ==
    /\ vpc = "subnets"
    /\ \E subnet_ok \in [ Ids(subnet_ids) -> BOOLEAN ], vnet_ok \in [ Ids(subnet_ids) -> BOOLEAN ] :
          \* the VNet is asked for only after its subnet was fetched
          /\ \A s \in Ids(subnet_ids) : ~subnet_ok[s] => vnet_ok[s]
          /\ vnet_out' = CollectSubnets(vnet_out, subnet_ids, vnet_world, subnet_ok, vnet_ok)
          /\ vfetched' = vfetched
                \cup { Fetch("subnet", s, subnet_ok[s]) : s \in Ids(subnet_ids) }
                \cup { Fetch("vnet", VNetOfSubnet(s), vnet_ok[s]) :
                         s \in { t \in Ids(subnet_ids) : subnet_ok[t] } }
    /\ vpc' = "nsgs"
    /\ UNCHANGED <<baseVars, nsgVars, cmpVars, recVars, cliVars, repVars, vnet_workspace_info, vnet_world, subnet_ids, vasked>>

\* line 40
AnalyzeNetworkSecurityGroups ==
    /\ vpc = "nsgs"
    /\ \E subnet_ok \in [ Ids(subnet_ids) -> BOOLEAN ], nsg_ok \in [ {NSG1} -> BOOLEAN ] :
          LET asked == { SubnetData(vnet_world, s).networkSecurityGroup :
                           s \in { t \in Ids(subnet_ids) : subnet_ok[t] } } \ {NoId}
              done == analyze_network_security_groups(
                              subnet_ids,
                              [ nsgs |-> << >>, processed_nsgs |-> {}, asked |-> << >> ],
                              vnet_world, subnet_ok, nsg_ok)
          IN  /\ vnet_out' = [ vnet_out EXCEPT !.network_security_groups = done.nsgs ]
              /\ vasked' = vasked \o [ k \in DOMAIN done.asked |->
                                          [ stage |-> "nsg", id |-> done.asked[k] ] ]
              /\ vfetched' = vfetched \cup { Fetch("nsg", n, nsg_ok[n]) : n \in asked }
    /\ vpc' = "routes"
    /\ UNCHANGED <<baseVars, nsgVars, cmpVars, recVars, cliVars, repVars, vnet_workspace_info, vnet_world, subnet_ids>>

\* line 43
AnalyzeRouteTables ==
    /\ vpc = "routes"
    /\ \E subnet_ok \in [ Ids(subnet_ids) -> BOOLEAN ], rt_ok \in [ {RT1} -> BOOLEAN ] :
          LET asked == { SubnetData(vnet_world, s).routeTable :
                           s \in { t \in Ids(subnet_ids) : subnet_ok[t] } } \ {NoId}
              done == _analyze_route_tables(
                          subnet_ids,
                          [ route_tables |-> << >>, processed_rts |-> {}, asked |-> << >> ],
                          vnet_world, subnet_ok, rt_ok)
          IN  /\ asked = {} => rt_ok[RT1]
              /\ vnet_out' = [ vnet_out EXCEPT !.route_tables = done.route_tables ]
              /\ vasked' = vasked \o [ k \in DOMAIN done.asked |->
                                          [ stage |-> "route-table", id |-> done.asked[k] ] ]
              /\ vfetched' = vfetched \cup { Fetch("route-table", r, rt_ok[r]) : r \in asked }
    /\ vpc' = "summary"
    /\ UNCHANGED <<baseVars, nsgVars, cmpVars, recVars, cliVars, repVars, vnet_workspace_info, vnet_world, subnet_ids>>

\* lines 46-55
GenerateVNetSummary ==
    /\ vpc = "summary"
    /\ vnet_out' = [ vnet_out EXCEPT !.analysis_summary = _generate_vnet_summary(vnet_out) ]
    /\ vpc' = "done"
    /\ UNCHANGED <<baseVars, nsgVars, cmpVars, recVars, cliVars, repVars, vnet_workspace_info, vnet_world, subnet_ids, vfetched, vasked>>

VNetNext ==
    \/ ExtractSubnetIds
    \/ CollectSubnetsAndVNets
    \/ AnalyzeNetworkSecurityGroups
    \/ AnalyzeRouteTables
    \/ GenerateVNetSummary
InitVNet == VNetInit /\ BaseIdle /\ NsgIdle /\ CmpIdle /\ RecIdle /\ LateIdle
SpecVNet == InitVNet /\ [][VNetNext]_vars

(***************************************************************************)
(* analyze_workspace_vnet as ConnectivityAnalyzer.analyze() calls it       *)
(* (connectivity_analyzer.py lines 75-79): the argument is                 *)
(* results['workspace'], the data of _connect_to_workspace (lines 195-201).*)
(* The workspace itself has private endpoint connections (which is why the *)
(* network stage reported the customer topology), each in one subnet.      *)
(***************************************************************************)
Listed(items, id) == \E i \in DOMAIN items : items[i].id = id

WorkspaceEndpoints == SeqsUpTo({PE1, PE2}, MaxPEConnections) \ { << >> }

OrchestratedVNetInit ==
    /\ hub_type \in {"azure-ml", "ai-foundry"}
    /\ vnet_workspace_info \in
          { _connect_to_workspace([ kind |-> "config", network_mode |-> m ], hub_type).data :
              m \in NetworkModes }
    /\ vnet_world \in [ nsgA : {NoId, NSG1}, rtA : {NoId, RT1},
                        serviceEndpoints : { JsonNull, JsonArray(<< >>) },
                        private_endpoints : WorkspaceEndpoints,
                        subnet_of : [ {PE1, PE2} -> {SubnetA, SubnetB} ] ]
    /\ vpc = "extract"
    /\ subnet_ids = << >>
    /\ vnet_out = [ vnets |-> << >>, subnets |-> << >>, network_security_groups |-> << >>,
                     route_tables |-> << >>, analysis_summary |-> << >> ]
    /\ vfetched = {}
    /\ vasked = << >>

InitOrchestratedVNet ==
    OrchestratedVNetInit /\ BaseIdle /\ NsgIdle /\ CmpIdle /\ RecIdle /\ LateIdle
SpecOrchestratedVNet == InitOrchestratedVNet /\ [][VNetNext]_vars

\* C24: when the orchestrator runs the VNet analysis for a customer-topology
\* workspace that has private endpoint connections and every fetch of the
\* analysis succeeds, vnet_details.subnets contains the subnet of each of
\* the workspace's private endpoints and vnet_details.vnets the VNet of each
\* such subnet.
C24_OrchestratedVNetCoversEndpoints ==
    (/\ vpc = "done"
     /\ \A f \in vfetched : f.ok) =>
        \A i \in DOMAIN vnet_world.private_endpoints :
            LET subnet_id == vnet_world.subnet_of[vnet_world.private_endpoints[i]]
            IN  /\ Listed(vnet_out.subnets, subnet_id)
                /\ Listed(vnet_out.vnets, VNetOfSubnet(subnet_id))

(***************************************************************************)
(* Properties of analyze_workspace_vnet (checked under SpecVNet)           *)
(***************************************************************************)
\* C25: within one VNet analysis each NSG id and each route-table id is
\* asked for at most once, also when the first query for it failed, and no
\* two entries of network_security_groups, and no two of route_tables, have
\* the same id.
C25_AttachedResourcesOnce ==
    /\ \A i, j \in DOMAIN vasked : vasked[i] = vasked[j] => i = j
    /\ \A i, j \in DOMAIN vnet_out.network_security_groups :
          vnet_out.network_security_groups[i].id = vnet_out.network_security_groups[j].id
              => i = j
    /\ \A i, j \in DOMAIN vnet_out.route_tables :
          vnet_out.route_tables[i].id = vnet_out.route_tables[j].id => i = j

\* two subnets with the same NSG and the same route table; the NSG query
\* failed and the route-table query succeeded
C25_Witness ==
    /\ vpc = "done"
    /\ Len(subnet_ids) = 2
    /\ vnet_world.nsgA = NSG1 /\ vnet_world.rtA = RT1
    /\ Fetch("subnet", SubnetA, TRUE) \in vfetched
    /\ Fetch("subnet", SubnetB, TRUE) \in vfetched
    /\ Fetch("nsg", NSG1, FALSE) \in vfetched
    /\ vasked = << [ stage |-> "nsg", id |-> NSG1 ], [ stage |-> "route-table", id |-> RT1 ] >>
    /\ vnet_out.network_security_groups = << >>
    /\ Len(vnet_out.route_tables) = 1

(***************************************************************************)
(* More properties of analyze_workspace_vnet                               *)
(***************************************************************************)
QuerySucceeded(stage, id) == Fetch(stage, id, TRUE) \in vfetched
Returned5 ==
    /\ vpc = "done"
    /\ DOMAIN vnet_out = {"vnets", "subnets", "network_security_groups", "route_tables",
                           "analysis_summary"}

MaxCmpEndpoints == 3
MaxCmpRules == 1
MaxDifferences == 11

PyDict(items)   == [ class |-> "dict", value |-> items ]
PyObject(cls, fields) == [ class |-> cls, value |-> fields ]

Gave_(value)  == [ raised |-> None, value |-> value ]
Raised_(e)    == [ raised |-> e, value |-> << >> ]

ConnectivityDifference(category, workspace1_value, workspace2_value, difference_type, severity) ==
    [ category         |-> category,
      workspace1_value |-> workspace1_value,
      workspace2_value |-> workspace2_value,
      difference_type  |-> difference_type,
      severity         |-> severity ]

\* _compare_basic_settings (lines 130-160), on two dicts
_compare_basic_settings(ws1_info, analysis1, ws2_info, analysis2) ==
    LET ws1_public == Get(Get(analysis1, "workspace_config", << >>),
                          "public_network_access", "Unknown")
        ws2_public == Get(Get(analysis2, "workspace_config", << >>),
                          "public_network_access", "Unknown")
    IN  (IF ws1_info.hub_type # ws2_info.hub_type
         THEN << ConnectivityDifference("Workspace Type", ws1_info.hub_type,
                                        ws2_info.hub_type, "changed", "medium") >>
         ELSE << >>)
        \o
        (IF ws1_public # ws2_public
         THEN << ConnectivityDifference("Public Network Access", ws1_public, ws2_public,
                                        "changed", "high") >>
         ELSE << >>)

\* _compare_network_config (lines 162-201)
_compare_network_config(analysis1, analysis2) ==
    LET vnet1 == Get(Get(analysis1, "network_config", << >>), "vnet_integration", << >>)
        vnet2 == Get(Get(analysis2, "network_config", << >>), "vnet_integration", << >>)
        vnet1_enabled == Get(vnet1, "enabled", FALSE)
        vnet2_enabled == Get(vnet2, "enabled", FALSE)
        pe1 == Get(Get(analysis1, "network_config", << >>), "private_endpoints", << >>)
        pe2 == Get(Get(analysis2, "network_config", << >>), "private_endpoints", << >>)
        pe1_count == Len(pe1)
        pe2_count == Len(pe2)
    IN  (IF vnet1_enabled # vnet2_enabled
         THEN << ConnectivityDifference("VNet Integration", vnet1_enabled, vnet2_enabled,
                                        "changed", "high") >>
         ELSE << >>)
        \o
        (IF pe1_count # pe2_count
         THEN << ConnectivityDifference("Private Endpoints", pe1_count, pe2_count,
                                        "changed", "medium") >>
         ELSE << >>)

\* the resource types of an analysis (lines 212-213)
ResourceTypesOf(analysis) ==
    LET resources == Get(analysis, "connected_resources", << >>)
    IN { Get(resources[i], "resource_type", "") : i \in DOMAIN resources }

\* _compare_connected_resources (lines 203-239); only_in_1 and only_in_2 are
\* the two set differences in the order the for loops go through them
_compare_connected_resources_low_severity(only_in_1, only_in_2) ==
    [ i \in DOMAIN only_in_1 |->
        ConnectivityDifference("Connected Resources", only_in_1[i], "Not present",
                               "removed", "low") ]
    \o
    [ i \in DOMAIN only_in_2 |->
        ConnectivityDifference("Connected Resources", "Not present", only_in_2[i],
                               "added", "low") ]
_compare_connected_resources(only_in_1, only_in_2) ==
    [ i \in DOMAIN only_in_1 |->
        ConnectivityDifference("Connected Resources", only_in_1[i], "Not present",
                               "removed", "medium") ]
    \o
    [ i \in DOMAIN only_in_2 |->
        ConnectivityDifference("Connected Resources", "Not present", only_in_2[i],
                               "added", "medium") ]

\* _compare_outbound_rules (lines 241-277)
_compare_outbound_rules_first_only(analysis1, analysis2) ==
    LET rules1 == Get(analysis1, "outbound_rules", << >>)
        rules2 == Get(analysis2, "outbound_rules", << >>)
        types1 == { Get(rules1[i], "type", "") : i \in DOMAIN rules1 }
        types2 == { Get(rules2[i], "type", "") : i \in DOMAIN rules2 }
    IN  (IF Len(rules1) # Len(rules2)
         THEN << ConnectivityDifference("Outbound Rules", Len(rules1), Len(rules2),
                                        "changed", "low") >>
         ELSE << >>)
        \o
        (IF rules1 # << >> /\ types1 # types2
         THEN << ConnectivityDifference("Outbound Rule Types", types1, types2,
                                        "changed", "low") >>
         ELSE << >>)
_compare_outbound_rules(analysis1, analysis2) ==
    LET rules1 == Get(analysis1, "outbound_rules", << >>)
        rules2 == Get(analysis2, "outbound_rules", << >>)
        types1 == { Get(rules1[i], "type", "") : i \in DOMAIN rules1 }
        types2 == { Get(rules2[i], "type", "") : i \in DOMAIN rules2 }
    IN  (IF Len(rules1) # Len(rules2)
         THEN << ConnectivityDifference("Outbound Rules", Len(rules1), Len(rules2),
                                        "changed", "low") >>
         ELSE << >>)
        \o
        (IF rules1 # << >> /\ rules2 # << >> /\ types1 # types2
         THEN << ConnectivityDifference("Outbound Rule Types", types1, types2,
                                        "changed", "low") >>
         ELSE << >>)

WithSeverity(differences, severity) ==
    SelectSeq(differences, LAMBDA d : d.severity = severity)

\* _get_recommendation (lines 290-304)
_get_recommendation_three_medium(differences) ==
    LET high_count == Len(WithSeverity(differences, "high"))
        medium_count == Len(WithSeverity(differences, "medium"))
    IN  IF high_count > 0
        THEN "CRITICAL: High-severity differences found that may impact connectivity"
        ELSE IF medium_count >= 3
        THEN "WARNING: Multiple medium-severity differences found"
        ELSE IF Len(differences) > 10
        THEN "INFO: Many configuration differences found"
        ELSE IF Len(differences) = 0
        THEN "SUCCESS: Workspaces have similar connectivity configurations"
        ELSE "INFO: Minor configuration differences found"
_get_recommendation(differences) ==
    LET high_count == Len(WithSeverity(differences, "high"))
        medium_count == Len(WithSeverity(differences, "medium"))
    IN  IF high_count > 0
        THEN "CRITICAL: High-severity differences found that may impact connectivity"
        ELSE IF medium_count > 3
        THEN "WARNING: Multiple medium-severity differences found"
        ELSE IF Len(differences) > 10
        THEN "INFO: Many configuration differences found"
        ELSE IF Len(differences) = 0
        THEN "SUCCESS: Workspaces have similar connectivity configurations"
        ELSE "INFO: Minor configuration differences found"

\* _generate_summary (lines 279-288)
_generate_summary(differences) ==
    [ total_differences |-> Len(differences),
      high_severity     |-> Len(WithSeverity(differences, "high")),
      medium_severity   |-> Len(WithSeverity(differences, "medium")),
      low_severity      |-> Len(WithSeverity(differences, "low")),
      categories        |-> { differences[i].category : i \in DOMAIN differences },
      recommendation    |-> _get_recommendation(differences) ]

\* _generate_comparison (lines 85-128).  analysis1 and analysis2 are used
\* through .get() only, first at lines 148-149; the two 'analysis' entries of
\* the returned dict, which repeat the arguments, are left out.
_generate_comparison(ws1_info, analysis1, ws2_info, analysis2, only_in_1, only_in_2) ==
    IF analysis1.class # "dict" \/ analysis2.class # "dict"
    THEN Raised_("AttributeError")
    ELSE LET differences ==
                 _compare_basic_settings(ws1_info, analysis1.value, ws2_info, analysis2.value)
                 \o _compare_network_config(analysis1.value, analysis2.value)
                 \o _compare_connected_resources(only_in_1, only_in_2)
                 \o _compare_outbound_rules(analysis1.value, analysis2.value)
         IN Gave_([ workspace1  |-> ws1_info,
                    workspace2  |-> ws2_info,
                    differences |-> [ all         |-> differences,
                                      high        |-> WithSeverity(differences, "high"),
                                      medium      |-> WithSeverity(differences, "medium"),
                                      low         |-> WithSeverity(differences, "low"),
                                      total_count |-> Len(differences) ],
                    summary     |-> _generate_summary(differences) ])

\* workspace1_info / workspace2_info as main.py builds them (lines 75-84)
WorkspaceInfoPairs ==
    { << [ name |-> "ws1", resource_group |-> "rg1", hub_type |-> "azure-ml" ],
         [ name |-> "ws2", resource_group |-> "rg1", hub_type |-> h ] >>
      : h \in {"azure-ml", "ai-foundry"} }

\* analysis dicts with the keys the comparison reads; a key may be missing
AnalysisDicts ==
    { PyDict(wc @@ [ network_config |->
                       [ vnet_integration  |-> [ enabled |-> e ],
                         private_endpoints |-> [ i \in 1..n |-> [ name |-> i ] ] ],
                     connected_resources |-> [ i \in 1..Len(rt) |-> [ resource_type |-> rt[i] ] ],
                     outbound_rules |-> [ i \in 1..Len(r) |-> [ type |-> r[i] ] ] ]) :
        wc \in { << >> } \cup { [ workspace_config |-> [ public_network_access |-> p ] ]
                                : p \in {"Enabled", "Disabled"} },
        e \in BOOLEAN,
        n \in {0, MaxCmpEndpoints},
        rt \in { << >>, << StorageType >>, << StorageType, KeyVaultType >> },
        r \in SeqsUpTo({"fqdn", "service_tag"}, MaxCmpRules) \cup { << "fqdn", "fqdn" >> } }

CompareInit ==
    /\ hub_type = "azure-ml"
    /\ cmp_ws \in WorkspaceInfoPairs
    /\ cmp_analysis \in AnalysisDicts \X AnalysisDicts
    /\ cmp_pc = "compare"
    /\ cmp_fwd = << >>
    /\ cmp_bwd = << >>

\* _generate_comparison for (workspace1, workspace2) and for (workspace2,
\* workspace1)
GenerateComparisons ==
    /\ cmp_pc = "compare"
    /\ LET types1 == ResourceTypesOf(cmp_analysis[1].value)
           types2 == ResourceTypesOf(cmp_analysis[2].value)
       IN \E o12 \in Orders(types1 \ types2), o21 \in Orders(types2 \ types1),
             p12 \in Orders(types1 \ types2), p21 \in Orders(types2 \ types1) :
             /\ cmp_fwd' = _generate_comparison(cmp_ws[1], cmp_analysis[1],
                                                cmp_ws[2], cmp_analysis[2], o12, o21)
             /\ cmp_bwd' = _generate_comparison(cmp_ws[2], cmp_analysis[2],
                                                cmp_ws[1], cmp_analysis[1], p21, p12)
    /\ cmp_pc' = "done"
    /\ UNCHANGED <<baseVars, nsgVars, vnetVars, recVars, cliVars, repVars, cmp_ws, cmp_analysis>>

CompareNext == GenerateComparisons
InitCompare == CompareInit /\ BaseIdle /\ NsgIdle /\ VNetIdle /\ RecIdle /\ LateIdle
SpecCompare == InitCompare /\ [][CompareNext]_vars

(***************************************************************************)
(* compare_workspaces (lines 34-83)                                        *)
(***************************************************************************)
\* what ConnectivityAnalyzer.analyze() hands back: an AnalysisResult whose
\* data carries the results of the stages, or the failure result
AnalyzeReturns(ws_info) ==
    { PyObject("AnalysisResult",
               AnalysisResult(TRUE, "Connectivity analysis completed successfully",
                   [ hub_type       |-> ws_info.hub_type,
                     workspace_name |-> ws_info.name,
                     results        |-> [ network |->
                         [ network_type |-> t,
                           private_endpoints |-> [ count |-> n ] ] ] ],
                   None)) : n \in 0..MaxCmpEndpoints, t \in NetworkTypes }
    \cup { PyObject("AnalysisResult",
                    AnalysisResult(FALSE, "Analysis failed due to unexpected error",
                                   None, "RuntimeError")) }

CompareWorkspacesInit ==
    /\ hub_type = "azure-ml"
    /\ cmp_ws \in WorkspaceInfoPairs
    /\ cmp_analysis = << >>
    /\ cmp_pc = "analyze1"
    /\ cmp_fwd = << >>
    /\ cmp_bwd = << >>

\* line 69
AnalyzeWorkspace1 ==
    /\ cmp_pc = "analyze1"
    /\ \E analysis1 \in AnalyzeReturns(cmp_ws[1]) : cmp_analysis' = << analysis1 >>
    /\ cmp_pc' = "analyze2"
    /\ UNCHANGED <<baseVars, nsgVars, vnetVars, recVars, cliVars, repVars, cmp_ws, cmp_fwd, cmp_bwd>>

\* line 72
AnalyzeWorkspace2 ==
    /\ cmp_pc = "analyze2"
    /\ \E analysis2 \in AnalyzeReturns(cmp_ws[2]) :
          cmp_analysis' = Append(cmp_analysis, analysis2)
    /\ cmp_pc' = "generate"
    /\ UNCHANGED <<baseVars, nsgVars, vnetVars, recVars, cliVars, repVars, cmp_ws, cmp_fwd, cmp_bwd>>

\* lines 75-83: nothing in compare_workspaces catches what
\* _generate_comparison raises
GenerateComparison ==
    /\ cmp_pc = "generate"
    /\ cmp_fwd' = _generate_comparison(cmp_ws[1], cmp_analysis[1],
                                       cmp_ws[2], cmp_analysis[2], << >>, << >>)
    /\ cmp_pc' = "done"
    /\ UNCHANGED <<baseVars, nsgVars, vnetVars, recVars, cliVars, repVars, cmp_ws, cmp_analysis, cmp_bwd>>

CompareWorkspacesNext ==
    \/ AnalyzeWorkspace1
    \/ AnalyzeWorkspace2
    \/ GenerateComparison
InitCompareWorkspaces == CompareWorkspacesInit /\ BaseIdle /\ NsgIdle /\ VNetIdle /\ RecIdle /\ LateIdle
SpecCompareWorkspaces == InitCompareWorkspaces /\ [][CompareWorkspacesNext]_vars

(***************************************************************************)
(* _get_recommendation on any list of differences                          *)
(***************************************************************************)
RecommendationInit ==
    /\ hub_type = "azure-ml"
    /\ rec_differences \in
          { [ i \in DOMAIN sev |->
                ConnectivityDifference("Outbound Rules", 0, i, "changed", sev[i]) ] :
              sev \in SeqsUpTo({"high", "medium", "low"}, MaxDifferences) }
    /\ recommendation = None

GetRecommendation ==
    /\ recommendation = None
    /\ recommendation' = _get_recommendation(rec_differences)
    /\ UNCHANGED <<baseVars, nsgVars, vnetVars, cmpVars, cliVars, repVars, rec_differences>>

RecommendationNext == GetRecommendation
InitRecommendation == RecommendationInit /\ BaseIdle /\ NsgIdle /\ VNetIdle /\ CmpIdle /\ LateIdle
SpecRecommendation == InitRecommendation /\ [][RecommendationNext]_vars

(***************************************************************************)
(* Properties of the comparison                                            *)
(***************************************************************************)
Categories ==
    {"Workspace Type", "Public Network Access", "VNet Integration", "Private Endpoints",
     "Connected Resources", "Outbound Rules", "Outbound Rule Types"}
CountBased == {"Private Endpoints", "Outbound Rules"}
InCategory(differences, category) ==
    SelectSeq(differences, LAMBDA d : d.category = category)
Compared ==
    cmp_pc = "done" /\ cmp_fwd.raised = None /\ cmp_bwd.raised = None

\* C16: comparing (A, B) and comparing (B, A) give the same number of
\* differences, in total and in every category, and a count-based
\* difference (private endpoints, outbound rules) of one comparison is in
\* the other with workspace1_value and workspace2_value swapped.
C16_ComparisonSymmetric ==
    cmp_pc = "done" =>
        /\ cmp_fwd.raised = cmp_bwd.raised
        /\ Compared =>
            LET ab == cmp_fwd.value.differences.all
                ba == cmp_bwd.value.differences.all
            IN  /\ Len(ab) = Len(ba)
                /\ cmp_fwd.value.differences.total_count
                     = cmp_bwd.value.differences.total_count
                /\ \A c \in Categories : Len(InCategory(ab, c)) = Len(InCategory(ba, c))
                /\ \A c \in CountBased :
                      \A i \in DOMAIN InCategory(ab, c) :
                          /\ InCategory(ab, c)[i].workspace1_value
                               = InCategory(ba, c)[i].workspace2_value
                          /\ InCategory(ab, c)[i].workspace2_value
                               = InCategory(ba, c)[i].workspace1_value

C16_Witness ==
    /\ Compared
    /\ Len(InCategory(cmp_fwd.value.differences.all, "Private Endpoints")) = 1
    /\ Len(InCategory(cmp_fwd.value.differences.all, "Outbound Rules")) = 1
    /\ Len(InCategory(cmp_fwd.value.differences.all, "Connected Resources")) = 2
    /\ InCategory(cmp_fwd.value.differences.all, "Private Endpoints")[1].workspace1_value
         = MaxCmpEndpoints
    /\ InCategory(cmp_bwd.value.differences.all, "Private Endpoints")[1].workspace1_value = 0

ComparisonsMade ==
    IF Compared THEN { cmp_fwd.value, cmp_bwd.value } ELSE {}

\* C29: on the lists of differences _generate_comparison produces, the
\* recommendation 'INFO: Many configuration differences found' never comes
\* out: a list with no high-severity and at most 3 medium-severity
\* differences has at most two low-severity ones and so at most 5
\* differences in all.
C29_ManyDifferencesUnreachable ==
    \A comparison \in ComparisonsMade :
        /\ comparison.summary.recommendation # "INFO: Many configuration differences found"
        /\ comparison.summary.recommendation
              = _get_recommendation(comparison.differences.all)
        /\ Len(comparison.differences.low) <= 2
        /\ (comparison.differences.high = << >> /\ Len(comparison.differences.medium) <= 3)
              => comparison.differences.total_count <= 5

C29_Witness ==
    /\ Compared
    /\ cmp_fwd.value.differences.high = << >>
    /\ Len(cmp_fwd.value.differences.medium) = 3
    /\ Len(cmp_fwd.value.differences.low) = 2
    /\ cmp_fwd.value.differences.total_count = 5
    /\ cmp_fwd.value.summary.recommendation = "INFO: Minor configuration differences found"
    /\ Len(cmp_bwd.value.differences.medium) = 3

\* C17: _get_recommendation answers with the first rule that matches:
\* CRITICAL when a difference has severity high; WARNING when more than 3
\* have severity medium; "INFO: Many ..." when there are more than 10
\* differences; SUCCESS when there is none; "INFO: Minor ..." otherwise.
C17_RecommendationRule ==
    recommendation # None =>
        LET high   == { i \in DOMAIN rec_differences : rec_differences[i].severity = "high" }
            medium == { i \in DOMAIN rec_differences : rec_differences[i].severity = "medium" }
            total  == Cardinality(DOMAIN rec_differences)
        IN  recommendation =
              CASE high # {} ->
                     "CRITICAL: High-severity differences found that may impact connectivity"
                [] high = {} /\ Cardinality(medium) > 3 ->
                     "WARNING: Multiple medium-severity differences found"
                [] high = {} /\ Cardinality(medium) <= 3 /\ total > 10 ->
                     "INFO: Many configuration differences found"
                [] total = 0 ->
                     "SUCCESS: Workspaces have similar connectivity configurations"
                [] OTHER ->
                     "INFO: Minor configuration differences found"

C17_Witness ==
    /\ recommendation = "INFO: Many configuration differences found"
    /\ Len(rec_differences) = 11
    /\ Len(WithSeverity(rec_differences, "medium")) = 3

\* C18: when the two orchestrator runs of compare_workspaces succeed and
\* agree on everything except the number of private endpoints, the
\* comparison is returned and holds exactly one difference, of category
\* 'Private Endpoints' and severity 'medium'.
C18_OnePrivateEndpointDifference ==
    ( /\ cmp_pc = "done"
      /\ cmp_ws[1].hub_type = cmp_ws[2].hub_type
      /\ cmp_analysis[1].value.success /\ cmp_analysis[2].value.success
      /\ cmp_analysis[1].value.data.results.network.network_type
           = cmp_analysis[2].value.data.results.network.network_type
      /\ cmp_analysis[1].value.data.results.network.private_endpoints.count = 3
      /\ cmp_analysis[2].value.data.results.network.private_endpoints.count = 0 )
    => /\ cmp_fwd.raised = None
       /\ Len(cmp_fwd.value.differences.all) = 1
       /\ cmp_fwd.value.differences.all[1].category = "Private Endpoints"
       /\ cmp_fwd.value.differences.all[1].severity = "medium"

(***************************************************************************)
(* AzureCliHelper.run_az_command (azure_cli_helper.py lines 19-65)         *)
(***************************************************************************)
\* Python values the helper can hand back
PyNone       == [ type |-> "NoneType", value |-> << >> ]
PyJson(type, value) == [ type |-> type, value |-> value ]

\* what the command can print on stdout
Outputs == {"", "  \n", "{\"name\": \"ws\"}\n", "[]\n", "null\n", "{\"name\": ", "ERROR: not json"}

\* str.strip() on those
Strip(text) ==
    CASE text = "  \n"                   -> ""
      [] text = "{\"name\": \"ws\"}\n"   -> "{\"name\": \"ws\"}"
      [] text = "[]\n"                   -> "[]"
      [] text = "null\n"                 -> "null"
      [] OTHER                           -> text

\* json.loads: the parsed value, or JSONDecodeError
json_loads(text) ==
    CASE Strip(text) = "{\"name\": \"ws\"}" -> Gave_(PyJson("dict", [ name |-> "ws" ]))
      [] Strip(text) = "[]"                 -> Gave_(PyJson("list", << >>))
      [] Strip(text) = "null"               -> Gave_(PyNone)
      [] OTHER                              -> Raised_("JSONDecodeError")

\* subprocess.run(cmd, capture_output=True, text=True, timeout=timeout): a
\* completed process, or an exception
ProcessOutcomes ==
    [ raised : {None}, returncode : {0, 1, 2}, stdout : Outputs,
      stderr : {"", "ERROR: (AuthorizationFailed)"} ]
    \cup [ raised : {"TimeoutExpired", "FileNotFoundError"}, returncode : {0},
           stdout : {""}, stderr : {""} ]

\* the command list as subprocess.run receives it (lines 33-39)
ExtendedCmd(cmd, subscription) ==
    LET with_subscription ==
            IF subscription # None
            THEN cmd \o << "--subscription", subscription >> ELSE cmd
    IN  IF \E i \in DOMAIN with_subscription : with_subscription[i] = "--output"
        THEN with_subscription
        ELSE with_subscription \o << "--output", "json" >>

run_az_command_decode_error_escapes(run) ==
    IF run.raised # None
    THEN Gave_(PyNone)
    ELSE IF run.returncode = 0 /\ Strip(run.stdout) # ""
         THEN json_loads(run.stdout)
         ELSE Gave_(PyNone)
\* lines 32-65, after the command list is complete; every handler returns None
run_az_command(run) ==
    IF run.raised # None
    THEN Gave_(PyNone)
    ELSE IF run.returncode = 0 /\ Strip(run.stdout) # ""
         THEN IF json_loads(run.stdout).raised = None
              THEN json_loads(run.stdout)
              ELSE Gave_(PyNone)
         ELSE Gave_(PyNone)

CliInit ==
    /\ hub_type = "azure-ml"
    /\ cli_cmd \in { << "az", "ml", "workspace", "show" >>,
                     << "az", "ml", "workspace", "show", "--output", "json" >> }
    /\ cli_subscription \in {None, "sub1"}
    /\ cli_run \in ProcessOutcomes
    /\ cli_ret = << >>

RunAzCommand ==
    /\ cli_ret = << >>
    /\ cli_cmd' = ExtendedCmd(cli_cmd, cli_subscription)
    /\ cli_ret' = run_az_command(cli_run)
    /\ UNCHANGED <<baseVars, nsgVars, vnetVars, cmpVars, recVars, repVars,
                   cli_subscription, cli_run>>

CliNext == RunAzCommand
InitCli == CliInit /\ BaseIdle /\ NsgIdle /\ VNetIdle /\ CmpIdle /\ RecIdle /\ RepIdle
SpecCli == InitCli /\ [][CliNext]_vars

\* JSON texts: the outputs a JSON parser accepts, with the value they denote
WellFormed ==
    [ o \in {"{\"name\": \"ws\"}\n", "[]\n", "null\n"} |->
        CASE o = "{\"name\": \"ws\"}\n" -> PyJson("dict", [ name |-> "ws" ])
          [] o = "[]\n"                 -> PyJson("list", << >>)
          [] OTHER                      -> PyNone ]

\* C19: run_az_command raises nothing; it returns None when the command
\* exits with a non-zero code, when it times out and when its output is not
\* JSON; a value other than None is returned only for exit code 0 with
\* non-empty output, and then it is the parsed output.
C19_NoneOnFailure ==
    cli_ret # << >> =>
        /\ cli_ret.raised = None
        /\ ( \/ cli_run.raised # None
             \/ cli_run.returncode # 0
             \/ cli_run.stdout \notin DOMAIN WellFormed ) => cli_ret.value = PyNone
        /\ ( /\ cli_run.raised = None
             /\ cli_run.returncode = 0
             /\ cli_run.stdout \in DOMAIN WellFormed )
               => cli_ret.value = WellFormed[cli_run.stdout]
        /\ cli_ret.value # PyNone =>
             /\ cli_run.raised = None
             /\ cli_run.returncode = 0
             /\ cli_run.stdout \notin {"", "  \n"}

C19_Witness ==
    /\ cli_ret # << >>
    /\ cli_run.raised = None
    /\ cli_run.returncode = 0
    /\ cli_run.stdout = "{\"name\": "
    /\ cli_ret.value = PyNone
    /\ cli_cmd[Len(cli_cmd)] = "json"

(***************************************************************************)
(* The report files of two runs of ConnectivityAnalyzer.analyze() for the  *)
(* same workspace (connectivity_analyzer.py lines 125-134,                 *)
(* report_generator.py lines 489-502)                                      *)
(***************************************************************************)
MaxTicks == 3
TicksPerSecond == 2
Runs == {1, 2}

\* datetime.now().strftime("%Y%m%d_%H%M%S"): the clock cut to whole seconds
Timestamp(now) == ToString(now \div TicksPerSecond)

\* line 131; a path is kept as the list of its pieces
report_filename(workspace_name, timestamp) ==
    << "connectivity-reports", "/", workspace_name, "_connectivity_", timestamp, ".md" >>

\* filepath.replace('.md', '.json') (line 500)
json_filepath(filepath) ==
    [ i \in DOMAIN filepath |-> IF filepath[i] = ".md" THEN ".json" ELSE filepath[i] ]

\* MarkdownReportGenerator.save: open(filepath, 'w') and then
\* open(json_filepath, 'w'), each truncating what is there; written is how
\* many of the two files the run got to write before an OSError, if any
save(files, filepath, run, written) ==
    LET paths == CASE written = 0 -> {}
                   [] written = 1 -> { filepath }
                   [] OTHER       -> { filepath, json_filepath(filepath) }
    IN [ p \in DOMAIN files \cup paths |-> IF p \in paths THEN run ELSE files[p] ]

ReportsInit ==
    /\ hub_type \in HubTypes
    /\ rep_now = 0
    /\ rep_runs = [ r \in Runs |-> [ pc |-> "analysing", report_location |-> << >>,
                                     wrote |-> {} ] ]
    /\ rep_files = << >>

\* time passes
Tick ==
    /\ rep_now < MaxTicks
    /\ rep_now' = rep_now + 1
    /\ UNCHANGED <<baseVars, nsgVars, vnetVars, cmpVars, recVars, cliVars, rep_runs, rep_files>>

\* lines 129-140 of one run
SaveReport(r) ==
    /\ rep_runs[r].pc = "analysing"
    /\ \E written \in 0..2 :
          LET filepath == report_filename("ws", Timestamp(rep_now))
          IN  /\ rep_files' = save(rep_files, filepath, r, written)
              /\ rep_runs' = [ rep_runs EXCEPT ![r] =
                     [ pc |-> "done",
                       report_location |-> IF written = 2 THEN filepath ELSE << >>,
                       wrote |-> CASE written = 0 -> {}
                                   [] written = 1 -> { filepath }
                                   [] OTHER       -> { filepath, json_filepath(filepath) } ] ]
    /\ UNCHANGED <<baseVars, nsgVars, vnetVars, cmpVars, recVars, cliVars, rep_now>>

ReportsNext == Tick \/ \E r \in Runs : SaveReport(r)
InitReports == ReportsInit /\ BaseIdle /\ NsgIdle /\ VNetIdle /\ CmpIdle /\ RecIdle /\ CliIdle
SpecReports == InitReports /\ [][ReportsNext]_vars

\* C20: two runs of analyze() for the same workspace never write to the same
\* report file path, so every file a run wrote is still that run's file.
C20_RunsNeverShareReportPaths ==
    /\ rep_runs[1].wrote \cap rep_runs[2].wrote = {}
    /\ \A r \in Runs : \A p \in rep_runs[r].wrote : rep_files[p] = r

====
